---- MODULE Spec2Model ----
(***************************************************************************)
(* Press-and-hold session controller of foresight-frontend.                *)
(*                                                                         *)
(* The model follows the zustand store useAppStore (handlePressStart,      *)
(* handlePressEnd and the setters), the CameraCapture component            *)
(* (handlePress, handleTouchMove, handlePressRelease, the MediaRecorder    *)
(* set-up effect and its ondataavailable handler) and the Home page root   *)
(* handlers.                                                               *)
(*                                                                         *)
(* One action is one browser task: a DOM event dispatched to the camera    *)
(* overlay (its handler, then the handler of the page root the event       *)
(* bubbles to), a timer callback, a promise continuation or a recorder     *)
(* event.  A React callback reads the state of the render that created it, *)
(* i.e. the state at the start of the task, while the store's own          *)
(* functions read the live state with get().  Time advances in ticks of    *)
(* PressDelayMs / TicksPerHold milliseconds.                               *)
(***************************************************************************)
EXTENDS Integers, Sequences, FiniteSets, TLC

\* ---------------------------------------------------------------- constants
\* setTimeout(..., 500) of the store's and the component's press timer
PressDelayMs == 500
\* setTimeout(..., 100) before the response URL is installed
UrlDelayMs == 100
\* const scrollThreshold = 10 // pixels
scrollThreshold == 10
\* AudioPlayer: retries stop at five failures, the message is set at the fourth
MaxAutoplayAttempts == 5
MessageAtAttempt == 4
AutoplayBlocked == "Auto-play blocked. Click play to listen."

\* ------------------------------------------------------------------- bounds
\* contacts (mouse or touch presses) of a run that starts at page load
MaxContacts == 2
\* contacts of a run that starts with the devices already acquired
MaxReadyContacts == 3
\* largest size of the Blob a recorder delivers (0 is the empty Blob)
MaxChunkSize == 1
\* ticks the 500 ms press delay is divided into
TicksPerHold == 2
\* response assets handed to one AudioPlayer
MaxAssets == 2
\* contacts in a run with the frame sampling loop
MaxFrameContacts == 1
\* uploadImage calls in flight
MaxUploads == 1
\* failed ticks in a row that are counted
MaxFailStreak == 2
\* automatic and manual play() calls on one asset, play() promises pending,
\* document events that reach unlockAudio, and the position at which an asset ends
MaxAutoCalls == 6
MaxManualCalls == 1
MaxPending == 2
MaxUnlocks == 1
EndPos == 1
\* chunks of a streamed synthesis result, and their sizes in bytes
MaxStreamChunks == 3
\* creation requests the identity service is sent
MaxUserCalls == 3
\* text turns of the chat
MaxChatTurns == 2
StreamSizes == {0, 50, 100, 200}

TickMs == PressDelayMs \div TicksPerHold
HoldTicks == PressDelayMs \div TickMs
\* a delay shorter than a tick still takes one tick
UrlTicks == (UrlDelayMs + TickMs - 1) \div TickMs

\* The MediaRecorder set-up effect can run once per change of cameraReady,
\* userId and isVideoStopped, each of which changes at most once.
Recorders == 1..3
ContactIds == 1..(IF MaxContacts > MaxReadyContacts THEN MaxContacts ELSE MaxReadyContacts)
ChunkSizes == 0..MaxChunkSize
NoURL == 0
NullPos == <<-1, -1>>
StartPos == <<0, 0>>
Points == {<<0, 0>>, <<10, 10>>, <<11, 0>>, <<0, 20>>}
Surfaces == {"overlay", "root"}
Kinds == {"mouse", "touch"}
\* the response assets (object URLs) an AudioPlayer is given, in order
Assets == 1..MaxAssets

VARIABLES
  \* useAppStore
  cameraReady, isRecording, isPressing, mediaRecorder, audioURL, error,
  \* window.__pressTimerId and the store's pending press timeouts
  pressTimerId, holdTimers,
  \* CameraCapture refs and local state, and the isVideoStopped prop
  pressTimerRef, compTimers, touchStartPosRef, isScrollingRef, audioChunksRef,
  userId, isVideoStopped,
  \* devices and platform
  camera, userInit, micPending, recState, recUser, recEvt, stopThrowsWhenInactive,
  \* turns in flight
  turns, urlTimers,
  \* the contact in progress and the record of what happened
  contact, nContacts, sess, nSessions, taps, unhandled

VARIABLES
  \* useAppStore
  hasUserInteracted,
  \* the image upload interval of CameraCapture and its callbacks in flight
  imageUploadIntervalRef, imageTimers, imageTimersMade, uploads, lastFrame,
  \* AudioPlayer: the component, its <audio> element, the play() promises and
  \* timeouts pending, and the record of what was played
  player, element, plays, unmuteTimers, playLog,
  \* a synthesis result being read: the reader and the Blob made from it
  reader, speechBlob

VARIABLES
  \* whether the page (Home with its CameraCapture) is mounted, the audio track of
  \* the stream each MediaRecorder was made from, and the identity service:
  \* localStorage's user id and the createUser calls in flight
  mounted, micTracks, idService

VARIABLES
  \* useChatStore's messages, the handleSubmit of ChatInterface in flight, and
  \* the generateSpeech call it makes
  messages, chat, speechCall

frameVars == <<imageUploadIntervalRef, imageTimers, imageTimersMade, uploads, lastFrame>>

playerVars == <<player, element, plays, unmuteTimers, playLog>>

drainVars == <<reader, speechBlob>>

lifeVars == <<mounted, micTracks, idService>>

chatVars == <<messages, chat, speechCall>>

vars == <<cameraReady, isRecording, isPressing, mediaRecorder, audioURL, error,
          pressTimerId, holdTimers, pressTimerRef, compTimers, touchStartPosRef,
          isScrollingRef, audioChunksRef, userId, isVideoStopped, camera, userInit,
          micPending, recState, recUser, recEvt, stopThrowsWhenInactive, turns,
          urlTimers, contact, nContacts, sess, nSessions,
          taps, unhandled, hasUserInteracted, frameVars, playerVars, drainVars, lifeVars, chatVars>>

NoContact ==
  [id |-> 0, surface |-> "root", kind |-> "mouse", elapsed |-> 0, pre |-> FALSE,
   scrolled |-> FALSE, starts |-> 0, startFailed |-> FALSE, startsAfterScroll |-> 0]

NoEvt == [pending |-> FALSE, size |-> 0, sess |-> 0]

NoSess ==
  [st |-> "none", rec |-> 0, by |-> 0, early |-> FALSE, fin |-> 0, sub |-> 0,
   chunks |-> <<>>, clip |-> <<>>]

RECURSIVE SumSeq(_)
SumSeq(q) == IF q = <<>> THEN 0 ELSE Head(q) + SumSeq(Tail(q))

Abs(x) == IF x < 0 THEN -x ELSE x

\* ids of the store's press timers: one per contact and per handler that armed it
TimerId(by, via) == 2 * by + (IF via = "root" THEN 1 ELSE 0)

VoiceUrl(k) == k

\* an AudioPlayer that is not rendered, and a fresh <audio> element
NoPlayer ==
  [mounted |-> FALSE, audioURL |-> NoURL, hasAutoPlayedRef |-> FALSE,
   autoplayAttemptsRef |-> 0, autoplayIntervalRef |-> FALSE, intervals |-> 0,
   hasTriedAutoplayAfterInteractionRef |-> FALSE, error |-> "", isPlaying |-> FALSE,
   isLoading |-> FALSE, unlockEvents |-> 0, made |-> NoURL]

NoElement ==
  [src |-> NoURL, paused |-> TRUE, muted |-> FALSE, volume |-> 1, pos |-> 0,
   listeners |-> {}]

\* what was done with the current asset: play() calls by attemptAutoplay and
\* how many of them failed, whether a playback of it succeeded, play() calls by
\* togglePlayback, and how the set-up that attached its listeners found the
\* element
NoLog ==
  [asset |-> NoURL, auto |-> 0, fails |-> 0, ok |-> FALSE, manual |-> 0,
   over |-> NoURL, clean |-> TRUE]

NoBlob == [made |-> FALSE, bytes |-> <<>>]

NoReader == [state |-> "none", stream |-> <<>>, chunks |-> <<>>, source |-> <<>>]

NoFrame == [res |-> "none", fails |-> 0, rec |-> FALSE]

\* ------------------------------------------------------- identity service
\* the last createUser call that returned: the id it returned, whether it sent a
\* creation request, and the id localStorage held when the call began
NoCall == [id |-> 0, requested |-> FALSE, found |-> 0]

\* localStorage without a user id and a backend that has created no user: the
\* k-th creation request is answered with user id k
NoIdService == [stored |-> 0, created |-> 0, pending |-> {}, last |-> NoCall]

\* a returning visitor: the id created on an earlier visit is in localStorage
Returning == [NoIdService EXCEPT !.stored = 1, !.created = 1]

\* createUser up to its await: the id in localStorage is returned, or a
\* creation request is sent.
createUser(s) ==
  IF s.stored # 0
  THEN [s EXCEPT !.last = [id |-> s.stored, requested |-> FALSE, found |-> s.stored]]
  ELSE [s EXCEPT !.created = @ + 1, !.pending = @ \cup {s.created + 1}]

\* createUser after its await: the id of the response is saved and returned.
CreateUserResponse(s, c) ==
  [s EXCEPT !.stored = c, !.pending = @ \ {c},
            !.last = [id |-> c, requested |-> TRUE, found |-> 0]]

\* createUser after its await, the request having failed: the error is rethrown.
CreateUserFailure(s, c) == [s EXCEPT !.pending = @ \ {c}]

\* The createUser call made by this page's initializeUser is the first one.
OwnCall == 1

\* the page is mounted; no MediaRecorder has been made
InitLife ==
  /\ mounted = TRUE
  /\ micTracks = [r \in Recorders |-> "none"]

\* the page is mounted, the stream of recorder 1 is open and the visitor's id is
\* in localStorage
InitLifeReady ==
  /\ mounted = TRUE
  /\ micTracks = [r \in Recorders |-> IF r = 1 THEN "live" ELSE "none"]
  /\ idService = Returning

\* ChatInterface: no handleSubmit in flight.  seen is the `messages` of the render
\* whose handleSubmit is running, user and ai the ids of the turn's messages,
\* made the number of messages created, result how the last turn ended.
NoChat ==
  [phase |-> "idle", seen |-> <<>>, user |-> 0, ai |-> 0, made |-> 0, turns |-> 0,
   result |-> "none"]

\* generateSpeech: no call made yet.  streaming is what the browser's feature
\* test gave, requests the requests the call has issued, firstError the error
\* of its first request, outcome what the call returned or that it threw.
NoSpeech ==
  [calls |-> 0, streaming |-> FALSE, phase |-> "idle", requests |-> 0,
   firstError |-> "", outcome |-> "none", thrown |-> ""]

InitChat ==
  /\ messages = <<>>
  /\ chat = NoChat
  /\ speechCall = NoSpeech

\* no AudioPlayer is rendered while audioURL is empty
InitPlayer ==
  /\ hasUserInteracted = FALSE
  /\ player = NoPlayer
  /\ element = NoElement
  /\ plays = <<>>
  /\ unmuteTimers = {}
  /\ playLog = NoLog

InitDrain ==
  /\ reader = NoReader
  /\ speechBlob = NoBlob

Init ==
  /\ cameraReady = FALSE
  /\ isRecording = FALSE
  /\ isPressing = FALSE
  /\ mediaRecorder = 0
  /\ audioURL = NoURL
  /\ error = ""
  /\ pressTimerId = 0
  /\ holdTimers = {}
  /\ pressTimerRef = 0
  /\ compTimers = {}
  /\ touchStartPosRef = NullPos
  /\ isScrollingRef = FALSE
  /\ audioChunksRef = <<>>
  /\ isVideoStopped = FALSE
  /\ camera = "pending"
  \* a returning visitor has a persisted id, set by the mount effect; a new one
  \* waits for createUser
  /\ \/ userId = 1 /\ userInit = "done"
     \/ userId = 0 /\ userInit = "pending"
  /\ idService = IF userId = 0 THEN createUser(NoIdService) ELSE Returning
  /\ InitLife
  /\ InitChat
  /\ micPending = [u \in 0..1 |-> 0]
  /\ recState = [r \in Recorders |-> "none"]
  /\ recUser = [r \in Recorders |-> 0]
  /\ recEvt = [r \in Recorders |-> NoEvt]
  /\ stopThrowsWhenInactive \in BOOLEAN
  /\ turns = [k \in ContactIds |-> "none"]
  /\ urlTimers = {}
  /\ contact = NoContact
  /\ nContacts = 0
  /\ sess = [k \in ContactIds |-> NoSess]
  /\ nSessions = 0
  /\ taps = {}
  /\ unhandled = FALSE
  /\ imageUploadIntervalRef = 0
  /\ imageTimers = {}
  /\ imageTimersMade = 0
  /\ uploads = 0
  /\ lastFrame = NoFrame
  /\ InitPlayer
  /\ InitDrain

\* ------------------------------------------------- the state a task works on
\* The parts of the state a gesture or timer task reads and writes in sequence.
Snap ==
  [isRecording |-> isRecording, isPressing |-> isPressing, audioURL |-> audioURL,
   error |-> error, pressTimerId |-> pressTimerId, holdTimers |-> holdTimers,
   pressTimerRef |-> pressTimerRef, compTimers |-> compTimers,
   touchStartPosRef |-> touchStartPosRef, isScrollingRef |-> isScrollingRef,
   recState |-> recState, recEvt |-> recEvt, contact |-> contact, sess |-> sess,
   nSessions |-> nSessions, hasUserInteracted |-> hasUserInteracted]

Commit(s) ==
  /\ isRecording' = s.isRecording
  /\ isPressing' = s.isPressing
  /\ audioURL' = s.audioURL
  /\ error' = s.error
  /\ pressTimerId' = s.pressTimerId
  /\ holdTimers' = s.holdTimers
  /\ pressTimerRef' = s.pressTimerRef
  /\ compTimers' = s.compTimers
  /\ touchStartPosRef' = s.touchStartPosRef
  /\ isScrollingRef' = s.isScrollingRef
  /\ recState' = s.recState
  /\ recEvt' = s.recEvt
  /\ contact' = s.contact
  /\ sess' = s.sess
  /\ nSessions' = s.nSessions
  /\ hasUserInteracted' = s.hasUserInteracted

\* ------------------------------------------------------------ MediaRecorder
\* start() throws InvalidStateError unless the recorder is inactive; it can also
\* fail because the device does not open (fails).
StartThrows(s, r, fails) == s.recState[r] # "inactive" \/ fails

\* A successful start(): the recorder records, a new session is active.  The
\* session remembers the contact whose timer started it (by) and whether the
\* contact in progress had lasted less than the press delay (early).
RecorderStart(s, r, by) ==
  LET k == s.nSessions + 1 IN
  [s EXCEPT !.recState[r] = "recording",
            !.nSessions = k,
            !.sess[k] = [NoSess EXCEPT !.st = "active", !.rec = r, !.by = by,
                                       !.early = s.contact.elapsed < HoldTicks],
            !.contact = IF @.id = 0 THEN @
                        ELSE [@ EXCEPT !.starts = @ + 1,
                                       !.startsAfterScroll =
                                          IF s.contact.scrolled THEN @ + 1 ELSE @]]

\* stop() on an inactive recorder throws InvalidStateError on some platforms and
\* returns silently on others.
StopThrows(s, r) == s.recState[r] # "recording" /\ stopThrowsWhenInactive

\* stop() that does not throw: a recording recorder becomes inactive at once and
\* queues its dataavailable event with the data gathered (size sz).
RecorderStop(s, r, sz) ==
  IF s.recState[r] = "recording"
  THEN LET k == CHOOSE j \in ContactIds : s.sess[j].rec = r /\ s.sess[j].st = "active" IN
       [s EXCEPT !.recState[r] = "inactive",
                 !.recEvt[r] = [pending |-> TRUE, size |-> sz, sess |-> k],
                 !.sess[k].st = "stopping"]
  ELSE s

\* ------------------------------------------------------------------ store
\* A handlePressStart that does not look at cameraReady.
handlePressStartWithoutCamera(s, by, via) ==
  IF ~s.isRecording
  THEN [s EXCEPT !.isPressing = TRUE,
                 !.hasUserInteracted = TRUE,
                 !.holdTimers = @ \cup {[id |-> TimerId(by, via), rem |-> HoldTicks,
                                         by |-> by]},
                 !.pressTimerId = TimerId(by, via)]
  ELSE s

\* handlePressStart of useAppStore, called for contact `by` through `via`.
handlePressStart(s, by, via) ==
  IF cameraReady /\ ~s.isRecording
  THEN [s EXCEPT !.isPressing = TRUE,
                 !.hasUserInteracted = TRUE,
                 !.holdTimers = @ \cup {[id |-> TimerId(by, via), rem |-> HoldTicks,
                                         by |-> by]},
                 !.pressTimerId = TimerId(by, via)]
  ELSE s

\* clearTimeout(window.__pressTimerId); window.__pressTimerId = null
ClearPressTimerId(s) ==
  IF s.pressTimerId # 0
  THEN [s EXCEPT !.holdTimers = {t \in @ : t.id # s.pressTimerId},
                 !.pressTimerId = 0]
  ELSE s

\* handlePressEnd of useAppStore; sz is the data the recorder has gathered.
handlePressEnd(s, sz) ==
  LET s1 == ClearPressTimerId([s EXCEPT !.isPressing = FALSE]) IN
  IF s.isRecording /\ mediaRecorder # 0
  THEN IF StopThrows(s1, mediaRecorder)
       THEN [s1 EXCEPT !.isRecording = FALSE, !.error = "Failed to stop recording"]
       ELSE RecorderStop(s1, mediaRecorder, sz)
  ELSE s1

\* A press-timer callback that starts the recorder without set({ audioURL: "" }).
PressTimerCallbackKeepsURL(s, t, fails) ==
  IF s.isPressing /\ ~s.isRecording /\ mediaRecorder # 0
  THEN IF StartThrows(s, mediaRecorder, fails)
       THEN [s EXCEPT !.error = "Failed to start recording",
                      !.contact = IF @.id = 0 THEN @ ELSE [@ EXCEPT !.startFailed = TRUE]]
       ELSE [RecorderStart(s, mediaRecorder, t.by) EXCEPT !.isRecording = TRUE]
  ELSE s

\* The callback of the store's press timer t.
PressTimerCallback(s, t, fails) ==
  IF s.isPressing /\ ~s.isRecording /\ mediaRecorder # 0
  THEN IF StartThrows(s, mediaRecorder, fails)
       THEN [s EXCEPT !.error = "Failed to start recording",
                      !.contact = IF @.id = 0 THEN @ ELSE [@ EXCEPT !.startFailed = TRUE]]
       ELSE [RecorderStart(s, mediaRecorder, t.by)
               EXCEPT !.isRecording = TRUE, !.audioURL = NoURL]
  ELSE s

\* ------------------------------------------------------------ CameraCapture
\* clearTimeout(pressTimerRef.current); pressTimerRef.current = null
ClearPressTimerRef(s) ==
  IF s.pressTimerRef # 0
  THEN [s EXCEPT !.compTimers = {t \in @ : t.id # s.pressTimerRef},
                 !.pressTimerRef = 0]
  ELSE s

\* handleRecordingStart as created by a render with the given mediaRecorder and
\* isRecording.
handleRecordingStart(s, capRecorder, capIsRecording, by, fails) ==
  IF capRecorder # 0 /\ ~capIsRecording
  THEN LET s1 == [s EXCEPT !.audioURL = NoURL] IN
       IF StartThrows(s1, capRecorder, fails)
       THEN [s1 EXCEPT !.error = "Failed to start recording: error",
                       !.contact = IF @.id = 0 THEN @ ELSE [@ EXCEPT !.startFailed = TRUE]]
       ELSE [RecorderStart(s1, capRecorder, by) EXCEPT !.isRecording = TRUE]
  ELSE s

\* handleRecordingStop as created by a render with the given mediaRecorder and
\* isRecording.
handleRecordingStop(s, capRecorder, capIsRecording, sz) ==
  IF capRecorder # 0 /\ capIsRecording
  THEN IF StopThrows(s, capRecorder)
       THEN [s EXCEPT !.error = "Failed to stop recording: error"]
       ELSE RecorderStop(s, capRecorder, sz)
  ELSE s

\* handlePress of the camera overlay, for contact `by` of kind `kind`.  s0 is the
\* state of the render the callback closes over.
handlePress(s0, by, kind) ==
  IF ~s0.isPressing
  THEN LET s1 == [s0 EXCEPT !.isScrollingRef = FALSE,
                            !.touchStartPosRef = IF kind = "touch" THEN StartPos ELSE @]
           s2 == handlePressStart(s1, by, "overlay")
       IN [s2 EXCEPT !.pressTimerRef = by,
                     !.compTimers = @ \cup {[id |-> by, rem |-> HoldTicks,
                                             capIsPressing |-> s0.isPressing,
                                             capRecorder |-> mediaRecorder,
                                             capIsRecording |-> s0.isRecording]}]
  ELSE s0

\* if (isPressing && !isScrollingRef.current): isPressing is the value of the
\* render in which handlePress armed timer t, isScrollingRef the live ref.
CompTimerCalls(s, t) == t.capIsPressing /\ ~s.isScrollingRef

\* The callback of the component's press timer t.
CompTimerCallback(s, t, fails) ==
  IF CompTimerCalls(s, t)
  THEN handleRecordingStart(s, t.capRecorder, t.capIsRecording, t.id, fails)
  ELSE s

\* A handleTouchMove that cancels the press whether or not a recording is active.
handleTouchMoveAlwaysCancels(s0, p) ==
  IF isVideoStopped THEN s0
  ELSE IF s0.touchStartPosRef # NullPos /\ s0.isPressing
  THEN LET deltaX == Abs(p[1] - s0.touchStartPosRef[1])
           deltaY == Abs(p[2] - s0.touchStartPosRef[2])
       IN IF deltaX > scrollThreshold \/ deltaY > scrollThreshold
          THEN handlePressEnd(ClearPressTimerRef([s0 EXCEPT !.isScrollingRef = TRUE]), 0)
          ELSE s0
  ELSE s0

\* handleTouchMove of the camera overlay; the touch is now at point p.
handleTouchMove(s0, p) ==
  IF isVideoStopped THEN s0
  ELSE IF s0.touchStartPosRef # NullPos /\ s0.isPressing
  THEN LET deltaX == Abs(p[1] - s0.touchStartPosRef[1])
           deltaY == Abs(p[2] - s0.touchStartPosRef[2])
       IN IF deltaX > scrollThreshold \/ deltaY > scrollThreshold
          THEN LET s1 == [s0 EXCEPT !.isScrollingRef = TRUE] IN
               IF ~s0.isRecording
               THEN handlePressEnd(ClearPressTimerRef(s1), 0)
               ELSE s1
          ELSE s0
  ELSE s0

\* handlePressRelease of the camera overlay.
handlePressRelease(s0, sz) ==
  IF isVideoStopped THEN s0
  ELSE LET s1 == ClearPressTimerRef([s0 EXCEPT !.touchStartPosRef = NullPos])
           s2 == IF s0.isRecording
                 THEN handleRecordingStop(s1, mediaRecorder, s0.isRecording, sz)
                 ELSE s1
       IN handlePressEnd(s2, sz)

\* ------------------------------------------------------------------ effects
\* The MediaRecorder set-up effect, run after a change of one of its
\* dependencies: it calls getUserMedia({audio}) when the camera is ready and no
\* recorder is stored; the handlers it installs close over the userId of that
\* render (u).
SetupAudioRecording(ready, recorder, u) ==
  IF ready /\ recorder = 0
  THEN [micPending EXCEPT ![u] = @ + 1]
  ELSE micPending

\* ------------------------------------------------- the image upload interval
ImageTimerState ==
  [ref |-> imageUploadIntervalRef, timers |-> imageTimers, made |-> imageTimersMade]

\* A variant that forgets the clearInterval.
KeepImageInterval(f) == f

\* A clearInterval that leaves the id in the ref.
ClearImageIntervalKeepsRef(f) ==
  IF f.ref # 0 THEN [f EXCEPT !.timers = @ \ {f.ref}] ELSE f

\* if (imageUploadIntervalRef.current) { clearInterval(...); ...current = null }
ClearImageInterval(f) ==
  IF f.ref # 0 THEN [f EXCEPT !.timers = @ \ {f.ref}, !.ref = 0] ELSE f

\* imageUploadIntervalRef.current = setInterval(..., 25000)
StartImageInterval(f) ==
  [ref |-> f.made + 1, timers |-> f.timers \cup {f.made + 1}, made |-> f.made + 1]

\* The effect on [cameraReady, userId, isVideoStopped] after a render with the
\* values given: the clean-up returned by the previous run, then the effect.
ImageUploadEffect(ready, u, stopped) ==
  LET f0 == ImageTimerState
      hadCleanup == ~isVideoStopped /\ cameraReady /\ userId # 0
      f1 == IF hadCleanup THEN ClearImageInterval(f0) ELSE f0
  IN  IF <<ready, u, stopped>> = <<cameraReady, userId, isVideoStopped>> THEN f0
      ELSE IF stopped THEN ClearImageInterval(f1)
      ELSE IF ready /\ u # 0
           THEN StartImageInterval(f1)
           ELSE f1

SetImageTimers(f) ==
  /\ imageUploadIntervalRef' = f.ref
  /\ imageTimers' = f.timers
  /\ imageTimersMade' = f.made

\* ------------------------------------------------------------------ actions
\* handleUserMedia: the webcam stream opened.
HandleUserMedia ==
  /\ camera = "pending"
  /\ camera' = "ready"
  /\ cameraReady' = TRUE
  /\ error' = ""
  /\ micPending' = SetupAudioRecording(TRUE, mediaRecorder, userId)
  /\ SetImageTimers(ImageUploadEffect(TRUE, userId, isVideoStopped))
  /\ UNCHANGED <<hasUserInteracted, uploads, lastFrame, playerVars, drainVars, lifeVars, chatVars>>
  /\ UNCHANGED <<isRecording, isPressing, mediaRecorder, audioURL, pressTimerId,
                 holdTimers, pressTimerRef, compTimers, touchStartPosRef,
                 isScrollingRef, audioChunksRef, userId, isVideoStopped, userInit,
                 recState, recUser, recEvt, stopThrowsWhenInactive, turns, urlTimers,
                 contact, nContacts, sess, nSessions, taps, unhandled>>

\* handleUserMediaError: the webcam stream could not be opened.
HandleUserMediaError ==
  /\ camera = "pending"
  /\ camera' = "error"
  /\ cameraReady' = FALSE
  /\ error' = "Camera error"
  /\ SetImageTimers(ImageUploadEffect(FALSE, userId, isVideoStopped))
  /\ UNCHANGED <<hasUserInteracted, uploads, lastFrame, playerVars, drainVars, lifeVars, chatVars>>
  /\ UNCHANGED <<isRecording, isPressing, mediaRecorder, audioURL, pressTimerId,
                 holdTimers, pressTimerRef, compTimers, touchStartPosRef,
                 isScrollingRef, audioChunksRef, userId, isVideoStopped, userInit,
                 micPending, recState, recUser, recEvt, stopThrowsWhenInactive, turns,
                 urlTimers, contact, nContacts, sess, nSessions,
                 taps, unhandled>>

\* initializeUser: createUser() resolved.
CreateUserResolve ==
  /\ userInit = "pending"
  /\ userInit' = "done"
  /\ userId' = 1
  /\ OwnCall \in idService.pending
  /\ idService' = CreateUserResponse(idService, OwnCall)
  /\ micPending' = SetupAudioRecording(cameraReady, mediaRecorder, 1)
  /\ SetImageTimers(ImageUploadEffect(cameraReady, 1, isVideoStopped))
  /\ UNCHANGED <<hasUserInteracted, uploads, lastFrame, playerVars, drainVars,
                 mounted, micTracks, chatVars>>
  /\ UNCHANGED <<cameraReady, isRecording, isPressing, mediaRecorder, audioURL, error,
                 pressTimerId, holdTimers, pressTimerRef, compTimers, touchStartPosRef,
                 isScrollingRef, audioChunksRef, isVideoStopped, camera, recState,
                 recUser, recEvt, stopThrowsWhenInactive, turns, urlTimers, contact, nContacts, sess, nSessions, taps, unhandled>>

\* initializeUser: createUser() rejected.
CreateUserReject ==
  /\ userInit = "pending"
  /\ userInit' = "failed"
  /\ error' = "Failed to create or retrieve user. Please refresh."
  /\ OwnCall \in idService.pending
  /\ idService' = CreateUserFailure(idService, OwnCall)
  /\ UNCHANGED <<hasUserInteracted, frameVars, playerVars, drainVars, mounted, micTracks, chatVars>>
  /\ UNCHANGED <<cameraReady, isRecording, isPressing, mediaRecorder, audioURL,
                 pressTimerId, holdTimers, pressTimerRef, compTimers, touchStartPosRef,
                 isScrollingRef, audioChunksRef, userId, isVideoStopped, camera,
                 micPending, recState, recUser, recEvt, stopThrowsWhenInactive, turns,
                 urlTimers, contact, nContacts, sess, nSessions,
                 taps, unhandled>>

NextRecorder == 1 + Cardinality({r \in Recorders : recState[r] # "none"})

\* getUserMedia({audio}) resolved for a request made with userId u: a
\* MediaRecorder is created and stored.
MicGranted(u) ==
  /\ micPending[u] > 0
  /\ micPending' = [micPending EXCEPT ![u] = @ - 1]
  /\ recState' = [recState EXCEPT ![NextRecorder] = "inactive"]
  /\ recUser' = [recUser EXCEPT ![NextRecorder] = u]
  /\ mediaRecorder' = NextRecorder
  /\ micTracks' = [micTracks EXCEPT ![NextRecorder] = "live"]
  /\ UNCHANGED <<hasUserInteracted, frameVars, playerVars, drainVars, mounted, idService, chatVars>>
  /\ UNCHANGED <<cameraReady, isRecording, isPressing, audioURL, error, pressTimerId,
                 holdTimers, pressTimerRef, compTimers, touchStartPosRef,
                 isScrollingRef, audioChunksRef, userId, isVideoStopped, camera,
                 userInit, recEvt, stopThrowsWhenInactive, turns, urlTimers, contact, nContacts, sess, nSessions, taps, unhandled>>

\* getUserMedia({audio}) rejected.
MicDenied(u) ==
  /\ micPending[u] > 0
  /\ micPending' = [micPending EXCEPT ![u] = @ - 1]
  /\ error' = "Could not access microphone"
  /\ UNCHANGED <<hasUserInteracted, frameVars, playerVars, drainVars, lifeVars, chatVars>>
  /\ UNCHANGED <<cameraReady, isRecording, isPressing, mediaRecorder, audioURL,
                 pressTimerId, holdTimers, pressTimerRef, compTimers, touchStartPosRef,
                 isScrollingRef, audioChunksRef, userId, isVideoStopped, camera,
                 userInit, recState, recUser, recEvt, stopThrowsWhenInactive, turns,
                 urlTimers, contact, nContacts, sess, nSessions,
                 taps, unhandled>>

\* handleStopVideo of the Home page (a click in the control panel).
StopVideo ==
  /\ mounted
  /\ ~isVideoStopped
  /\ contact.id = 0
  /\ isVideoStopped' = TRUE
  /\ micPending' = SetupAudioRecording(cameraReady, mediaRecorder, userId)
  /\ SetImageTimers(ClearImageInterval(ImageUploadEffect(cameraReady, userId, TRUE)))
  /\ UNCHANGED <<hasUserInteracted, uploads, lastFrame, playerVars, drainVars, lifeVars, chatVars>>
  /\ UNCHANGED <<cameraReady, isRecording, isPressing, mediaRecorder, audioURL, error,
                 pressTimerId, holdTimers, pressTimerRef, compTimers, touchStartPosRef,
                 isScrollingRef, audioChunksRef, userId, camera, userInit, recState,
                 recUser, recEvt, stopThrowsWhenInactive, turns, urlTimers, contact, nContacts, sess, nSessions, taps, unhandled>>

\* What a gesture or timer task leaves alone.
GestureFrame ==
  UNCHANGED <<cameraReady, mediaRecorder, audioChunksRef, userId, isVideoStopped,
              camera, userInit, micPending, recUser, stopThrowsWhenInactive, turns,
              urlTimers, unhandled, frameVars, playerVars, drainVars, lifeVars, chatVars>>

\* mousedown / touchstart: on the camera overlay the event runs handlePress and
\* then bubbles to the page root, whose handler is the store's handlePressStart.
ContactStart(surface, kind, limit) ==
  /\ mounted
  /\ contact.id = 0
  /\ nContacts < limit
  /\ LET by == nContacts + 1
         s0 == [Snap EXCEPT !.contact =
                  [NoContact EXCEPT !.id = by, !.surface = surface, !.kind = kind,
                                    !.pre = cameraReady /\ mediaRecorder # 0
                                            /\ ~isRecording]]
         s1 == IF surface = "overlay" THEN handlePress(s0, by, kind) ELSE s0
         s2 == handlePressStart(s1, by, "root")
     IN /\ Commit(s2)
        /\ nContacts' = by
  /\ UNCHANGED taps
  /\ GestureFrame

\* Whether a touch at p has left the start point by more than the threshold.
Exceeds(p) ==
  \/ Abs(p[1] - StartPos[1]) > scrollThreshold
  \/ Abs(p[2] - StartPos[2]) > scrollThreshold

\* touchmove on the camera overlay (the page root has no touchmove handler).
TouchMove(p) ==
  /\ mounted
  /\ contact.id # 0
  /\ contact.kind = "touch"
  /\ contact.surface = "overlay"
  /\ LET moved == /\ Exceeds(p)
                  /\ ~isRecording
                  /\ \E t \in holdTimers : t.by = contact.id
         s0 == [Snap EXCEPT !.contact.scrolled = @ \/ moved]
     IN Commit(handleTouchMove(s0, p))
  /\ UNCHANGED <<nContacts, taps>>
  /\ GestureFrame

\* mouseup / touchend: handlePressRelease on the overlay, then the store's
\* handlePressEnd at the page root.
ContactEnd(sz) ==
  /\ mounted
  /\ contact.id # 0
  /\ LET s0 == Snap
         s1 == IF contact.surface = "overlay" THEN handlePressRelease(s0, sz) ELSE s0
         s2 == handlePressEnd(s1, sz)
     IN Commit([s2 EXCEPT !.contact = NoContact])
  /\ taps' = IF contact.elapsed < HoldTicks /\ contact.starts = 0
             THEN taps \cup {contact.id} ELSE taps
  /\ UNCHANGED nContacts
  /\ GestureFrame

\* Timers of equal delay fire in the order they were armed.
FirstDue(t) == t.rem = 0 /\ \A u \in holdTimers : u.rem = 0 => u.id >= t.id

\* The store's press timer fires.
PressTimerFire(t, fails) ==
  /\ t \in holdTimers
  /\ FirstDue(t)
  /\ Commit(PressTimerCallback([Snap EXCEPT !.holdTimers = @ \ {t}], t, fails))
  /\ UNCHANGED <<nContacts, taps>>
  /\ GestureFrame

\* The component's press timer fires.
CompTimerFire(t, fails) ==
  /\ t \in compTimers
  /\ t.rem = 0
  /\ Commit(CompTimerCallback([Snap EXCEPT !.compTimers = @ \ {t}], t, fails))
  /\ UNCHANGED <<nContacts, taps>>
  /\ GestureFrame

\* -------------------------------------------------------- recorder.ondataavailable
\* if (e.data.size > 0) audioChunksRef.current.push(e.data)
PushChunk(chunks, size) == IF size > 0 THEN Append(chunks, size) ELSE chunks

\* The handler finalizes only inside the size > 0 branch, when the recorder is
\* inactive.
Finalizes(size, state) == size > 0 /\ state = "inactive"

\* audioChunksRef.current = [] after the clip has been built
ChunksAfterClip(chunks) == <<>>

\* The dataavailable event of recorder r is handled.
OnDataAvailable(r) ==
  /\ recEvt[r].pending
  /\ LET e == recEvt[r]
         k == e.sess
         pushed == PushChunk(audioChunksRef, e.size)
         done == Finalizes(e.size, recState[r])
         sends == done /\ recUser[r] # 0
     IN /\ recEvt' = [recEvt EXCEPT ![r] = NoEvt]
        /\ audioChunksRef' = IF done THEN ChunksAfterClip(pushed) ELSE pushed
        /\ isRecording' = IF done THEN FALSE ELSE isRecording
        /\ turns' = IF sends THEN [turns EXCEPT ![k] = "sending"] ELSE turns
        \* throw new Error("User ID not available") inside the async handler
        /\ unhandled' = (unhandled \/ (done /\ recUser[r] = 0))
        /\ sess' = [sess EXCEPT ![k] =
                      [@ EXCEPT !.st = "handled",
                                !.chunks = PushChunk(@, e.size),
                                !.fin = IF done THEN @ + 1 ELSE @,
                                !.sub = IF sends THEN @ + 1 ELSE @,
                                !.clip = IF done THEN pushed ELSE @]]
  /\ UNCHANGED <<cameraReady, isPressing, mediaRecorder, audioURL, error, pressTimerId,
                 holdTimers, pressTimerRef, compTimers, touchStartPosRef,
                 isScrollingRef, userId, isVideoStopped, camera, userInit, micPending,
                 recState, recUser, stopThrowsWhenInactive, urlTimers, contact, nContacts, nSessions, taps>>
  /\ UNCHANGED <<hasUserInteracted, frameVars, playerVars, drainVars, lifeVars, chatVars>>

\* What a step of a turn in flight leaves alone.
TurnFrame ==
  UNCHANGED <<cameraReady, isRecording, isPressing, mediaRecorder, pressTimerId,
              holdTimers, pressTimerRef, compTimers, touchStartPosRef, isScrollingRef,
              audioChunksRef, userId, isVideoStopped, camera, userInit, micPending,
              recState, recUser, recEvt, stopThrowsWhenInactive, contact, nContacts,
              sess, nSessions, taps, unhandled, hasUserInteracted, frameVars,
              playerVars, drainVars, lifeVars, chatVars>>

\* setAudioURL(""); setTimeout(() => setAudioURL(speechUrl), 100)
InstallLater(url) == urlTimers \cup {[url |-> url, rem |-> UrlTicks]}

\* sendAudioPrompt of turn k resolved: generateSpeech is requested.
SendAudioResolve(k) ==
  /\ turns[k] = "sending"
  /\ turns' = [turns EXCEPT ![k] = "synth"]
  /\ UNCHANGED <<audioURL, error, urlTimers>>
  /\ TurnFrame

\* sendAudioPrompt of turn k rejected.
SendAudioReject(k) ==
  /\ turns[k] = "sending"
  /\ turns' = [turns EXCEPT ![k] = "failed"]
  /\ error' = "Failed to send audio"
  /\ UNCHANGED <<audioURL, urlTimers>>
  /\ TurnFrame

\* generateSpeech of turn k resolved with a Blob or a stream of n chunks and the
\* stream has been read to its end.
SpeechResolve(k, isBlob, n) ==
  /\ turns[k] = "synth"
  /\ IF isBlob \/ n > 0
     THEN /\ turns' = [turns EXCEPT ![k] = "done"]
          /\ audioURL' = NoURL
          /\ urlTimers' = InstallLater(VoiceUrl(k))
          /\ UNCHANGED error
     ELSE /\ turns' = [turns EXCEPT ![k] = "failed"]
          /\ error' = "Speech generation failed"
          /\ UNCHANGED <<audioURL, urlTimers>>
  /\ TurnFrame

\* generateSpeech of turn k rejected.
SpeechReject(k) ==
  /\ turns[k] = "synth"
  /\ turns' = [turns EXCEPT ![k] = "failed"]
  /\ error' = "Speech generation failed"
  /\ UNCHANGED <<audioURL, urlTimers>>
  /\ TurnFrame

\* The 100 ms timer of a finished turn fires: setAudioURL(speechUrl).
UrlTimerFire(t) ==
  /\ t \in urlTimers
  /\ t.rem = 0
  /\ urlTimers' = urlTimers \ {t}
  /\ audioURL' = t.url
  /\ UNCHANGED <<error, turns>>
  /\ TurnFrame

\* --------------------------------------------------------------------- time
\* One tick passes.  A due timer fires, and a queued recorder event is handled,
\* before time moves on.
Tick ==
  /\ \A t \in holdTimers \cup compTimers \cup urlTimers : t.rem > 0
  /\ \A r \in Recorders : ~recEvt[r].pending
  /\ \/ holdTimers \cup compTimers \cup urlTimers # {}
     \/ contact.id # 0 /\ contact.elapsed < HoldTicks
  /\ holdTimers' = {[t EXCEPT !.rem = @ - 1] : t \in holdTimers}
  /\ compTimers' = {[t EXCEPT !.rem = @ - 1] : t \in compTimers}
  /\ urlTimers' = {[t EXCEPT !.rem = @ - 1] : t \in urlTimers}
  /\ contact' = IF contact.id # 0 /\ contact.elapsed < HoldTicks
                THEN [contact EXCEPT !.elapsed = @ + 1] ELSE contact
  /\ UNCHANGED <<hasUserInteracted, frameVars, playerVars, drainVars, lifeVars, chatVars>>
  /\ UNCHANGED <<cameraReady, isRecording, isPressing, mediaRecorder, audioURL, error,
                 pressTimerId, pressTimerRef, touchStartPosRef, isScrollingRef,
                 audioChunksRef, userId, isVideoStopped, camera, userInit, micPending,
                 recState, recUser, recEvt, stopThrowsWhenInactive, turns, nContacts, sess, nSessions, taps, unhandled>>

Next ==
  \/ HandleUserMedia
  \/ HandleUserMediaError
  \/ CreateUserResolve
  \/ CreateUserReject
  \/ \E u \in 0..1 : MicGranted(u)
  \/ \E u \in 0..1 : MicDenied(u)
  \/ StopVideo
  \/ \E surface \in Surfaces, kind \in Kinds : ContactStart(surface, kind, MaxContacts)
  \/ \E p \in Points : TouchMove(p)
  \/ \E sz \in ChunkSizes : ContactEnd(sz)
  \/ \E t \in holdTimers, fails \in BOOLEAN : PressTimerFire(t, fails)
  \/ \E t \in compTimers, fails \in BOOLEAN : CompTimerFire(t, fails)
  \/ \E r \in Recorders : OnDataAvailable(r)
  \/ \E k \in ContactIds : SendAudioResolve(k)
  \/ \E k \in ContactIds : SendAudioReject(k)
  \/ \E k \in ContactIds, isBlob \in BOOLEAN, n \in 0..1 : SpeechResolve(k, isBlob, n)
  \/ \E k \in ContactIds : SpeechReject(k)
  \/ \E t \in urlTimers : UrlTimerFire(t)
  \/ Tick

Spec == Init /\ [][Next]_vars

\* ------------------------------------------------- runs with the devices ready
\* The page after set-up has settled for a returning visitor: the webcam stream
\* is open, the user id is known and the one microphone request was granted.
InitReady ==
  /\ cameraReady = TRUE
  /\ isRecording = FALSE
  /\ isPressing = FALSE
  /\ mediaRecorder = 1
  /\ audioURL = NoURL
  /\ error = ""
  /\ pressTimerId = 0
  /\ holdTimers = {}
  /\ pressTimerRef = 0
  /\ compTimers = {}
  /\ touchStartPosRef = NullPos
  /\ isScrollingRef = FALSE
  /\ audioChunksRef = <<>>
  /\ isVideoStopped = FALSE
  /\ camera = "ready"
  /\ userId = 1
  /\ userInit = "done"
  /\ micPending = [u \in 0..1 |-> 0]
  /\ recState = [r \in Recorders |-> IF r = 1 THEN "inactive" ELSE "none"]
  /\ recUser = [r \in Recorders |-> IF r = 1 THEN 1 ELSE 0]
  /\ recEvt = [r \in Recorders |-> NoEvt]
  /\ stopThrowsWhenInactive \in BOOLEAN
  /\ turns = [k \in ContactIds |-> "none"]
  /\ urlTimers = {}
  /\ contact = NoContact
  /\ nContacts = 0
  /\ sess = [k \in ContactIds |-> NoSess]
  /\ nSessions = 0
  /\ taps = {}
  /\ unhandled = FALSE
  /\ imageUploadIntervalRef = 1
  /\ imageTimers = {1}
  /\ imageTimersMade = 1
  /\ uploads = 0
  /\ lastFrame = NoFrame
  /\ InitPlayer
  /\ InitDrain
  /\ InitLifeReady
  /\ InitChat

NextReady ==
  \/ StopVideo
  \/ \E surface \in Surfaces, kind \in Kinds : ContactStart(surface, kind, MaxReadyContacts)
  \/ \E p \in Points : TouchMove(p)
  \/ \E sz \in ChunkSizes : ContactEnd(sz)
  \/ \E t \in holdTimers, fails \in BOOLEAN : PressTimerFire(t, fails)
  \/ \E t \in compTimers, fails \in BOOLEAN : CompTimerFire(t, fails)
  \/ \E r \in Recorders : OnDataAvailable(r)
  \/ \E k \in ContactIds : SendAudioResolve(k)
  \/ \E k \in ContactIds : SendAudioReject(k)
  \/ \E k \in ContactIds, isBlob \in BOOLEAN, n \in 0..1 : SpeechResolve(k, isBlob, n)
  \/ \E k \in ContactIds : SpeechReject(k)
  \/ \E t \in urlTimers : UrlTimerFire(t)
  \/ Tick

SpecReady == InitReady /\ [][NextReady]_vars

\* ===================================================================== claims
Active == {k \in ContactIds : sess[k].st = "active"}

\* The contact in progress began with the camera ready, a recorder stored and
\* no session in progress.
Qualifies == contact.id # 0 /\ contact.pre

\* A store press timer that has run out and not fired yet.
DueTimer == \E t \in holdTimers : t.rem = 0

\* stop() has been called on recorder r and its dataavailable event is queued.
Stopping(r) == recState[r] = "inactive" /\ recEvt[r].pending

\* C1: a contact released less than 500 ms after it started, during which no
\* recording had started, never causes the recorder to be started: no timer it
\* armed starts the recorder during a contact that is not yet 500 ms old.  And
\* isPressing is false once the contact is over.
C1_TapNeverStartsRecorder ==
  /\ \A k \in ContactIds :
        (sess[k].st # "none" /\ sess[k].by \in taps) => ~sess[k].early
  /\ contact.id = 0 => ~isPressing

\* C2: during a contact that began with the camera ready, a recorder stored and
\* no session in progress, and that is not scroll-cancelled, the recorder is
\* not started before the contact is 500 ms old; once the contact is 500 ms old
\* and its timers have fired, the recorder has been started exactly once
\* during it and isRecording is true (a start() that threw set aside).
C2_HoldStartsOneSessionAtTimer ==
  (Qualifies /\ ~contact.scrolled) =>
     /\ contact.starts > 0 => contact.elapsed >= HoldTicks
     /\ (contact.elapsed >= HoldTicks /\ ~DueTimer /\ ~contact.startFailed)
           => (contact.starts = 1 /\ isRecording)

\* C3: once a contact has moved more than the scroll threshold before its press
\* timer fired and while no recording was active, the recorder is not started
\* for the rest of that contact.
C3_ScrollCancelsHold ==
  (contact.id # 0 /\ contact.scrolled) => contact.startsAfterScroll = 0

\* C4: at most one recording session is active at a time.
C4_AtMostOneActiveSession == Cardinality(Active) <= 1

\* C5: a session whose dataavailable event has been handled was finalized
\* exactly once and submitted exactly one clip.
C5_OneFinalizationOneSubmission ==
  \A k \in ContactIds :
     sess[k].st = "handled" => (sess[k].fin = 1 /\ sess[k].sub = 1)

\* C6: when the newest session has been stopped and its recorder delivered no
\* non-empty chunk, the session was finalized and isRecording is false.
C6_EmptyClipEndsRecording ==
  \A k \in ContactIds :
     (k = nSessions /\ sess[k].st = "handled" /\ sess[k].chunks = <<>>)
        => (sess[k].fin = 1 /\ ~isRecording)

\* C7: a finalized clip consists of exactly the chunks its own session
\* delivered, in arrival order, so its length is the sum of their lengths; no
\* chunk of another session is in it, and a session whose recorder delivered a
\* non-empty chunk is finalized.
C7_ClipIsTheSessionsChunks ==
  \A k \in ContactIds :
     /\ sess[k].fin > 0 =>
           (sess[k].clip = sess[k].chunks /\ SumSeq(sess[k].clip) = SumSeq(sess[k].chunks))
     /\ (sess[k].st = "handled" /\ sess[k].chunks # <<>>) => sess[k].fin = 1

\* C8: isRecording = TRUE implies that a recorder is stored and that it is
\* recording or stopping.
C8_RecordingImpliesOpenRecorder ==
  isRecording =>
     /\ mediaRecorder # 0
     /\ recState[mediaRecorder] = "recording" \/ Stopping(mediaRecorder)

\* C9: every step in which a recording session becomes active (the recorder is
\* started) leaves audioURL empty.
C9_StartClearsAudioURL ==
  [][nSessions' # nSessions => (isRecording' /\ audioURL' = NoURL)]_vars

\* C9 witness: the second session is active and the response of the first turn,
\* which had been installed as audioURL, is no longer current.
C9_Witness ==
  /\ nSessions = 2
  /\ sess[2].st = "active"
  /\ isRecording
  /\ turns[1] = "done"
  /\ urlTimers = {}
  /\ audioURL = NoURL

\* C10: while the newest session is active (isRecording true), audioURL is
\* empty: no response of an earlier turn is installed during a recording.
C10_NoInstallWhileRecording ==
  (isRecording /\ nSessions > 0 /\ sess[nSessions].st = "active") => audioURL = NoURL

\* ============================================== the frame sampling loop
\* Everything of the session controller but the error text.
sessionVars ==
  <<cameraReady, isRecording, isPressing, mediaRecorder, audioURL, pressTimerId,
    holdTimers, pressTimerRef, compTimers, touchStartPosRef, isScrollingRef,
    audioChunksRef, userId, isVideoStopped, camera, userInit, micPending, recState,
    recUser, recEvt, stopThrowsWhenInactive, turns, urlTimers, contact, nContacts,
    sess, nSessions, taps, unhandled, hasUserInteracted>>

FrameResults == {"no image", "preparation error", "uploading"}

Failed(f, res) ==
  [res |-> res, fails |-> IF f.fails < MaxFailStreak THEN f.fails + 1 ELSE f.fails,
   rec |-> isRecording]

\* A callback of the interval that runs only while nothing is being recorded.
ImageTickWhenIdle(t, res) ==
  /\ t \in imageTimers
  /\ ~isRecording /\ ~isPressing
  /\ lastFrame' = Failed(lastFrame, res)
  /\ UNCHANGED <<error, uploads, imageUploadIntervalRef, imageTimers, imageTimersMade>>
  /\ UNCHANGED <<sessionVars, playerVars, drainVars, lifeVars, chatVars>>

\* A callback of the interval that gives the loop up when a frame fails.
ImageTickStopsOnFailure(t, res) ==
  /\ t \in imageTimers
  /\ lastFrame' = Failed(lastFrame, res)
  /\ imageTimers' = imageTimers \ {t}
  /\ imageUploadIntervalRef' = 0
  /\ UNCHANGED <<error, uploads, imageTimersMade>>
  /\ UNCHANGED <<sessionVars, playerVars, drainVars, lifeVars, chatVars>>

\* The callback of interval t up to its first await that does not come back at
\* once: getScreenshot() gave no image, fetch()/blob() of the data URL threw, or
\* uploadImage() was called.  The timer exists only for a user id that is set,
\* and the Webcam is always rendered, so the callback's first test passes.
ImageTick(t, res) ==
  /\ t \in imageTimers
  /\ res \in FrameResults
  /\ CASE res = "no image" ->
            /\ lastFrame' = Failed(lastFrame, res)
            /\ UNCHANGED <<error, uploads>>
       [] res = "preparation error" ->
            /\ lastFrame' = Failed(lastFrame, res)
            /\ error' = "Image preparation error"
            /\ UNCHANGED uploads
       [] res = "uploading" ->
            /\ uploads < MaxUploads
            /\ uploads' = uploads + 1
            /\ lastFrame' = [lastFrame EXCEPT !.res = res, !.rec = isRecording]
            /\ UNCHANGED error
  /\ UNCHANGED <<imageUploadIntervalRef, imageTimers, imageTimersMade>>
  /\ UNCHANGED <<sessionVars, playerVars, drainVars, lifeVars, chatVars>>

\* uploadImage() resolved.
UploadResolve ==
  /\ uploads > 0
  /\ uploads' = uploads - 1
  /\ lastFrame' = [lastFrame EXCEPT !.res = "uploaded", !.fails = 0]
  /\ UNCHANGED <<error, imageUploadIntervalRef, imageTimers, imageTimersMade>>
  /\ UNCHANGED <<sessionVars, playerVars, drainVars, lifeVars, chatVars>>

\* uploadImage() rejected.
UploadReject ==
  /\ uploads > 0
  /\ uploads' = uploads - 1
  /\ lastFrame' = Failed(lastFrame, "upload error")
  /\ error' = "Upload error"
  /\ UNCHANGED <<imageUploadIntervalRef, imageTimers, imageTimersMade>>
  /\ UNCHANGED <<sessionVars, playerVars, drainVars, lifeVars, chatVars>>

\* The page from its load on, with one contact and the frame sampling loop.
NextFrames ==
  \/ HandleUserMedia
  \/ HandleUserMediaError
  \/ CreateUserResolve
  \/ CreateUserReject
  \/ \E u \in 0..1 : MicGranted(u)
  \/ \E u \in 0..1 : MicDenied(u)
  \/ StopVideo
  \/ \E surface \in Surfaces, kind \in Kinds : ContactStart(surface, kind, MaxFrameContacts)
  \/ \E p \in Points : TouchMove(p)
  \/ \E sz \in ChunkSizes : ContactEnd(sz)
  \/ \E t \in holdTimers, fails \in BOOLEAN : PressTimerFire(t, fails)
  \/ \E t \in compTimers, fails \in BOOLEAN : CompTimerFire(t, fails)
  \/ \E r \in Recorders : OnDataAvailable(r)
  \/ \E k \in ContactIds : SendAudioResolve(k)
  \/ \E k \in ContactIds : SendAudioReject(k)
  \/ \E k \in ContactIds, isBlob \in BOOLEAN, n \in 0..1 : SpeechResolve(k, isBlob, n)
  \/ \E k \in ContactIds : SpeechReject(k)
  \/ \E t \in urlTimers : UrlTimerFire(t)
  \/ Tick
  \/ \E t \in imageTimers, res \in FrameResults : ImageTick(t, res)
  \/ UploadResolve
  \/ UploadReject

SpecFrames == Init /\ [][NextFrames]_vars

FrameTick == \E t \in imageTimers, res \in FrameResults : ImageTick(t, res)

FrameFailure ==
  \/ \E t \in imageTimers : ImageTick(t, "no image")
  \/ \E t \in imageTimers : ImageTick(t, "preparation error")
  \/ UploadReject

\* C18: while the image upload interval exists a tick can be taken, whatever
\* isPressing and isRecording are, and no step of a tick (the capture, the upload
\* resolving or rejecting) changes isPressing, isRecording, the recorder or
\* audioURL.
C18_TickIndependentOfRecording ==
  /\ [](imageTimers # {} => ENABLED FrameTick)
  /\ [][(FrameTick \/ UploadResolve \/ UploadReject) =>
          UNCHANGED <<isPressing, isRecording, mediaRecorder, recState, recEvt,
                      audioChunksRef, audioURL>>]_vars

\* a tick was taken during a recording that is still going on
C18_Witness ==
  /\ isRecording /\ isPressing
  /\ lastFrame.res # "none" /\ lastFrame.rec
  /\ imageTimers # {}

\* C19: an image upload interval exists only while cameraReady is true, the user
\* id is set and the video has not been stopped, and there is never more than one.
C19_IntervalOnlyWhileReady ==
  /\ imageTimers # {} => (cameraReady /\ userId # 0 /\ ~isVideoStopped)
  /\ Cardinality(imageTimers) <= 1

\* the interval was armed and the video was then stopped
C19_Witness == isVideoStopped /\ imageTimersMade > 0 /\ imageTimers = {}

\* C20: a tick whose capture, preparation or upload fails changes nothing but
\* the error text and the record of the tick; the interval stays armed and
\* the next tick can be taken, after any number of failures in a row.
C20_FailedTickKeepsLoop ==
  /\ [][FrameFailure =>
          /\ imageTimers' = imageTimers
          /\ imageUploadIntervalRef' = imageUploadIntervalRef
          /\ UNCHANGED sessionVars]_vars
  /\ [](lastFrame.fails > 0 /\ cameraReady /\ userId # 0 /\ ~isVideoStopped
          => ENABLED FrameTick)

\* the longest run of failed ticks counted, with the interval still armed
C20_Witness == lastFrame.fails = MaxFailStreak /\ imageTimers # {}

\* C21: clearing the image upload interval twice gives what clearing it once
\* gives: no timer and an empty ref; an interval started after that is the only
\* one.  The step that stops the video, in which the interval is cleared by the
\* clean-up and by both effects, leaves no timer and does not touch the error.
C21_StopIsIdempotent ==
  /\ [](LET once == ClearImageInterval(ImageTimerState)
            twice == ClearImageInterval(once)
            again == StartImageInterval(twice)
        IN  /\ twice = once
            /\ once.ref = 0 /\ once.timers = {}
            /\ again.ref # 0 /\ again.timers = {again.ref})
  /\ [][(isVideoStopped' /\ ~isVideoStopped) =>
          /\ imageTimers' = {} /\ imageUploadIntervalRef' = 0
          /\ error' = error]_vars

\* the interval had taken a tick when the video was stopped
C21_Witness ==
  /\ isVideoStopped
  /\ imageTimersMade = 1 /\ imageUploadIntervalRef = 0 /\ imageTimers = {}
  /\ lastFrame.res # "none"

\* ================================================================== teardown
\* The page is unmounted: React runs the clean-up of every effect.  The camera
\* effect stops the tracks of the camera stream, the image upload effect clears
\* its interval, the last effect of CameraCapture clears the timer in
\* pressTimerRef, the AudioPlayer clears its retry interval.  The store, the
\* timers set on window and the MediaRecorder with its stream are no state of a
\* component and stay as they are; a contact in progress no longer reaches a
\* handler.
Teardown ==
  /\ mounted
  /\ mounted' = FALSE
  /\ camera' = "stopped"
  /\ SetImageTimers(IF ~isVideoStopped /\ cameraReady /\ userId # 0
                    THEN ClearImageInterval(ImageTimerState)
                    ELSE ImageTimerState)
  /\ compTimers' = {t \in compTimers : t.id # pressTimerRef}
  /\ contact' = NoContact
  /\ IF player.mounted
     THEN /\ player' = [NoPlayer EXCEPT !.made = player.made]
          /\ element' = NoElement
          /\ plays' = <<>>
          /\ unmuteTimers' = {}
          /\ playLog' = NoLog
     ELSE UNCHANGED playerVars
  /\ UNCHANGED <<cameraReady, isRecording, isPressing, mediaRecorder, audioURL, error,
                 pressTimerId, holdTimers, pressTimerRef, touchStartPosRef,
                 isScrollingRef, audioChunksRef, userId, isVideoStopped, userInit,
                 micPending, recState, recUser, recEvt, stopThrowsWhenInactive, turns,
                 urlTimers, nContacts, sess, nSessions, taps, unhandled,
                 hasUserInteracted, uploads, lastFrame, drainVars, micTracks,
                 idService, chatVars>>

\* The page with its devices ready, two contacts at most, until and after it is
\* unmounted.
NextTeardown ==
  \/ StopVideo
  \/ \E surface \in Surfaces, kind \in Kinds : ContactStart(surface, kind, MaxContacts)
  \/ \E p \in Points : TouchMove(p)
  \/ \E sz \in ChunkSizes : ContactEnd(sz)
  \/ \E t \in holdTimers, fails \in BOOLEAN : PressTimerFire(t, fails)
  \/ \E t \in compTimers, fails \in BOOLEAN : CompTimerFire(t, fails)
  \/ \E r \in Recorders : OnDataAvailable(r)
  \/ \E k \in ContactIds : SendAudioResolve(k)
  \/ \E k \in ContactIds : SendAudioReject(k)
  \/ \E k \in ContactIds, isBlob \in BOOLEAN, n \in 0..1 : SpeechResolve(k, isBlob, n)
  \/ \E k \in ContactIds : SpeechReject(k)
  \/ \E t \in urlTimers : UrlTimerFire(t)
  \/ Tick
  \/ Teardown

SpecTeardown == InitReady /\ [][NextTeardown]_vars

\* C22: once the page is unmounted no image upload interval, no press timer of
\* the store or of the component and no autoplay retry interval is pending.
C22_NoTimerAfterTeardown ==
  ~mounted =>
     /\ imageTimers = {}
     /\ holdTimers = {} /\ compTimers = {}
     /\ player.intervals = 0

\* C23: the audio track of a recorder's stream is not live once a session of
\* that recorder has been stopped and its data handled, nor once the page is
\* unmounted.
C23_MicrophoneReleased ==
  /\ \A k \in ContactIds :
        sess[k].st = "handled" => micTracks[sess[k].rec] # "live"
  /\ ~mounted => \A r \in Recorders : micTracks[r] # "live"

\* ================================================== failures of a turn
\* A turn in flight fails in this step: the clip was not accepted, or the
\* synthesis failed or delivered an empty stream.
TurnFails == \E k \in ContactIds : turns[k] # "failed" /\ turns'[k] = "failed"

\* The recorder's start() throws in this step.
StartFails == contact'.startFailed /\ ~contact.startFailed

\* No session is being recorded or waits for its final data event.
NoSessionOpen == \A k \in ContactIds : sess[k].st \in {"none", "handled"}

\* handlePressStart would arm a timer whose callback starts the recorder.
Restartable ==
  /\ cameraReady /\ mediaRecorder # 0
  /\ recState[mediaRecorder] = "inactive"
  /\ ~isRecording /\ ~isPressing

\* C24: a step in which the recorder's start() throws, or in which a turn fails
\* (submission rejected, synthesis rejected, empty stream), sets an error.  When
\* a turn fails with no contact in progress and no session open, and when the
\* contact during which start() threw ends without a session of its own, then
\* isRecording and isPressing are false and the recorder is stored and inactive:
\* the next hold of 500 ms starts a session.
C24_FailureLeavesSessionRestartable ==
  /\ [][(TurnFails \/ StartFails) => error' # ""]_vars
  /\ [][(TurnFails /\ contact.id = 0 /\ NoSessionOpen) => Restartable']_vars
  /\ [][(contact.startFailed /\ contact'.id = 0 /\ NoSessionOpen) => Restartable']_vars

\* C25: no run of the dataavailable handler ends in an exception that nothing
\* catches: every failure of a turn, finalization without a user id included,
\* ends in an error or status update.
C25_NoUncaughtFinalization == ~unhandled

\* C26: once the webcam has failed to open, cameraReady is false, no image
\* upload interval exists and no tick can be taken, and no contact sets
\* isPressing, arms a press timer of the store or starts a recording.
C26_CameraErrorBlocksTicksAndHolds ==
  camera = "error" =>
     /\ ~cameraReady
     /\ imageTimers = {} /\ ~ENABLED FrameTick
     /\ ~isPressing /\ holdTimers = {}
     /\ ~isRecording /\ nSessions = 0

\* C26 witness: the webcam has failed for a visitor whose id is known, and a
\* contact on the overlay has been held for the press delay.
C26_Witness ==
  /\ camera = "error"
  /\ userId # 0
  /\ contact.id # 0 /\ contact.surface = "overlay"
  /\ contact.elapsed >= HoldTicks
  /\ compTimers = {}

\* The dataavailable event of some recorder is handled in this step.
DataEventHandled == \E r \in Recorders : recEvt[r].pending /\ ~recEvt'[r].pending

\* C28: isRecording changes from true to false only in a step that handles a
\* recorder's dataavailable event; in particular the step that requests the
\* stop leaves it true.
C28_OnlyDataHandlerEndsRecording ==
  [][(isRecording /\ ~isRecording') => DataEventHandled]_vars

\* A touch moves beyond the scroll threshold in this step.
ScrollMove == \E p \in Points : Exceeds(p) /\ TouchMove(p)

C30_OneHoldTimer ==
  /\ Cardinality(holdTimers) <= 1
  /\ contact.id = 0 => holdTimers = {}

\* ============================================================= the user id
\* Another run of initializeUser reaches createUser: a second instance of the
\* page on the same origin (a second tab, or the second run of the mount effect
\* when React mounts the component twice) shares localStorage with this one.
OtherCreateUser ==
  /\ idService.created < MaxUserCalls
  /\ idService' = createUser(idService)
  /\ UNCHANGED <<cameraReady, isRecording, isPressing, mediaRecorder, audioURL, error,
                 pressTimerId, holdTimers, pressTimerRef, compTimers, touchStartPosRef,
                 isScrollingRef, audioChunksRef, userId, isVideoStopped, camera,
                 userInit, micPending, recState, recUser, recEvt,
                 stopThrowsWhenInactive, turns, urlTimers, contact, nContacts, sess,
                 nSessions, taps, unhandled, hasUserInteracted, frameVars, playerVars,
                 drainVars, mounted, micTracks, chatVars>>

\* The creation request of call c of another instance is answered: createUser
\* saves the new id and returns it.
OtherCreateUserResolve(c) ==
  /\ c \in idService.pending \ {OwnCall}
  /\ idService' = CreateUserResponse(idService, c)
  /\ UNCHANGED <<cameraReady, isRecording, isPressing, mediaRecorder, audioURL, error,
                 pressTimerId, holdTimers, pressTimerRef, compTimers, touchStartPosRef,
                 isScrollingRef, audioChunksRef, userId, isVideoStopped, camera,
                 userInit, micPending, recState, recUser, recEvt,
                 stopThrowsWhenInactive, turns, urlTimers, contact, nContacts, sess,
                 nSessions, taps, unhandled, hasUserInteracted, frameVars, playerVars,
                 drainVars, mounted, micTracks, chatVars>>

\* The creation request of call c of another instance fails.
OtherCreateUserReject(c) ==
  /\ c \in idService.pending \ {OwnCall}
  /\ idService' = CreateUserFailure(idService, c)
  /\ UNCHANGED <<cameraReady, isRecording, isPressing, mediaRecorder, audioURL, error,
                 pressTimerId, holdTimers, pressTimerRef, compTimers, touchStartPosRef,
                 isScrollingRef, audioChunksRef, userId, isVideoStopped, camera,
                 userInit, micPending, recState, recUser, recEvt,
                 stopThrowsWhenInactive, turns, urlTimers, contact, nContacts, sess,
                 nSessions, taps, unhandled, hasUserInteracted, frameVars, playerVars,
                 drainVars, mounted, micTracks, chatVars>>

\* The page from its load until its devices have settled, with the other
\* instances that use the same localStorage.
NextUser ==
  \/ HandleUserMedia
  \/ HandleUserMediaError
  \/ CreateUserResolve
  \/ CreateUserReject
  \/ \E u \in 0..1 : MicGranted(u)
  \/ \E u \in 0..1 : MicDenied(u)
  \/ StopVideo
  \/ OtherCreateUser
  \/ \E c \in 1..MaxUserCalls : OtherCreateUserResolve(c)
  \/ \E c \in 1..MaxUserCalls : OtherCreateUserReject(c)

SpecUser == Init /\ [][NextUser]_vars

\* C27: a call of createUser that finds an id stored returns that id and issues
\* no creation request, and once an id is stored the stored id never changes.
C27_CreateUserIdempotent ==
  /\ [](idService.last.found # 0 =>
          /\ idService.last.id = idService.last.found
          /\ ~idService.last.requested)
  /\ [][idService.stored # 0 => idService'.stored = idService.stored]_vars

\* The MediaRecorders created so far, each on an audio stream of its own.
Created == {r \in Recorders : recState[r] # "none"}

\* C31: at most one audio stream is opened and at most one MediaRecorder is
\* created, whatever the order of camera-ready, user initialization and the
\* answers to the microphone requests.
C31_OneMicrophoneOneRecorder ==
  /\ Cardinality(Created) <= 1
  /\ Cardinality({r \in Recorders : micTracks[r] = "live"}) <= 1

\* C32: a step that finalizes a session (its clip is non-empty) while the page
\* has a user id submits the clip: the turn of that session is sent.
C32_FinalizedClipIsSubmitted ==
  [][\A k \in ContactIds :
        (sess'[k].fin > sess[k].fin /\ userId # 0)
           => (sess'[k].sub = sess[k].sub + 1 /\ turns'[k] = "sending")]_vars

\* C33: when the timer armed by handlePress is due while its contact is still
\* held (isPressing true) and no scroll was detected, its callback calls
\* handleRecordingStart.
C33_ComponentTimerStartsRecording ==
  \A t \in compTimers :
     (t.rem = 0 /\ contact.id = t.id /\ isPressing /\ ~isScrollingRef)
        => CompTimerCalls(Snap, t)

\* C34: with the video stopped, a contact that began with the camera ready, a
\* recorder stored and no recording in progress has started the recorder once it
\* is 500 ms old and its timers have fired (a start() that threw set aside); and
\* the step that ends a contact leaves isPressing false and no recorder
\* recording.
C34_HoldToTalkAfterVideoStop ==
  /\ []((isVideoStopped /\ Qualifies /\ contact.elapsed >= HoldTicks /\ ~DueTimer
           /\ ~contact.startFailed)
          => (contact.starts >= 1 /\ isRecording))
  /\ [][(isVideoStopped /\ contact.id # 0 /\ contact'.id = 0)
          => (~isPressing' /\ \A r \in Recorders : recState'[r] # "recording")]_vars

\* ------------------------------------------------- stop() calls of a release
\* The number of mediaRecorder.stop() calls one run of the store's
\* handlePressEnd makes in state s.
StopCallsOfPressEnd(s) == IF s.isRecording /\ mediaRecorder # 0 THEN 1 ELSE 0

\* The number of stop() calls one run of handlePressRelease makes: one in
\* handleRecordingStop, then those of handlePressEnd.
StopCallsOfPressRelease(s0, sz) ==
  IF isVideoStopped THEN 0
  ELSE LET s1 == ClearPressTimerRef([s0 EXCEPT !.touchStartPosRef = NullPos])
           first == IF s0.isRecording /\ mediaRecorder # 0 THEN 1 ELSE 0
           s2 == IF s0.isRecording
                 THEN handleRecordingStop(s1, mediaRecorder, s0.isRecording, sz)
                 ELSE s1
       IN first + StopCallsOfPressEnd(s2)

\* The number of stop() calls made when the contact in progress ends now, the
\* recorder having gathered sz bytes: the overlay's handler, then the root's.
StopCallsOfContactEnd(sz) ==
  IF contact.surface = "overlay"
  THEN StopCallsOfPressRelease(Snap, sz)
         + StopCallsOfPressEnd(handlePressRelease(Snap, sz))
  ELSE StopCallsOfPressEnd(Snap)

\* A contact is in progress and the stored recorder is recording.
ContactRecording ==
  /\ contact.id # 0 /\ isRecording /\ mediaRecorder # 0
  /\ recState[mediaRecorder] = "recording"

\* C35: when a contact ends during an active recording, stop() is called
\* exactly once, and the step that ends the contact leaves the error as it was.
C35_OneStopPerRelease ==
  /\ [](ContactRecording => \A sz \in ChunkSizes : StopCallsOfContactEnd(sz) = 1)
  /\ [][(ContactRecording /\ contact'.id = 0) => error' = error]_vars

\* The image upload interval was started and has been cleared.
LoopStopped == imageTimersMade > 0 /\ imageTimers = {}

\* C36: once the image upload interval has been cleared no upload is issued and
\* no callback of the loop reports a result (status or error) any more.
C36_StoppedLoopIsSilent ==
  [][LoopStopped => (uploads' <= uploads /\ lastFrame' = lastFrame)]_vars

\* ========================================= reading a streamed synthesis result
\* the i-th chunk the stream delivers, n bytes long: every byte carries i, so
\* that the place of each chunk in the Blob can be told
Chunk(i, n) == [j \in 1..n |-> i]

SizeLists == UNION {[1..k -> StreamSizes] : k \in 0..MaxStreamChunks}

\* the results generateSpeech can hand over as a ReadableStream
Streams == {[i \in 1..Len(z) |-> Chunk(i, z[i])] : z \in SizeLists}

Lengths(chunks) == [i \in 1..Len(chunks) |-> Len(chunks[i])]

\* allChunks.set(chunk, position)
SetAt(arr, chunk, position) ==
  [j \in 1..Len(arr) |->
     IF position < j /\ j <= position + Len(chunk) THEN chunk[j - position] ELSE arr[j]]

\* A loop that never advances position.
RECURSIVE CopyChunksAtZero(_, _, _)
CopyChunksAtZero(arr, chunks, position) ==
  IF chunks = <<>> THEN arr
  ELSE CopyChunksAtZero(SetAt(arr, Head(chunks), position), Tail(chunks), position)

\* for (const chunk of chunks) { allChunks.set(chunk, position); position += chunk.length }
RECURSIVE CopyChunks(_, _, _)
CopyChunks(arr, chunks, position) ==
  IF chunks = <<>> THEN arr
  ELSE CopyChunks(SetAt(arr, Head(chunks), position), Tail(chunks),
                  position + Len(Head(chunks)))

\* new Blob([allChunks]) of the chunks read
Concatenate(chunks) ==
  LET totalLength == SumSeq(Lengths(chunks))
      allChunks == [j \in 1..totalLength |-> 0]
  IN  CopyChunks(allChunks, chunks, 0)

\* The page with its devices ready and a generateSpeech result about to be read.
InitDrains ==
  /\ cameraReady = TRUE
  /\ isRecording = FALSE
  /\ isPressing = FALSE
  /\ mediaRecorder = 1
  /\ audioURL = NoURL
  /\ error = ""
  /\ pressTimerId = 0
  /\ holdTimers = {}
  /\ pressTimerRef = 0
  /\ compTimers = {}
  /\ touchStartPosRef = NullPos
  /\ isScrollingRef = FALSE
  /\ audioChunksRef = <<>>
  /\ isVideoStopped = FALSE
  /\ camera = "ready"
  /\ userId = 1
  /\ userInit = "done"
  /\ micPending = [u \in 0..1 |-> 0]
  /\ recState = [r \in Recorders |-> IF r = 1 THEN "inactive" ELSE "none"]
  /\ recUser = [r \in Recorders |-> IF r = 1 THEN 1 ELSE 0]
  /\ recEvt = [r \in Recorders |-> NoEvt]
  /\ stopThrowsWhenInactive \in BOOLEAN
  /\ turns = [k \in ContactIds |-> "none"]
  /\ urlTimers = {}
  /\ contact = NoContact
  /\ nContacts = 0
  /\ sess = [k \in ContactIds |-> NoSess]
  /\ nSessions = 0
  /\ taps = {}
  /\ unhandled = FALSE
  /\ imageUploadIntervalRef = 1
  /\ imageTimers = {1}
  /\ imageTimersMade = 1
  /\ uploads = 0
  /\ lastFrame = NoFrame
  /\ InitPlayer
  /\ \E z \in Streams : reader = [state |-> "reading", stream |-> z, chunks |-> <<>>,
                                   source |-> z]
  /\ speechBlob = NoBlob
  /\ InitLifeReady
  /\ InitChat

\* What reading the stream leaves alone.
DrainFrame ==
  UNCHANGED <<cameraReady, isRecording, isPressing, mediaRecorder, pressTimerId,
              holdTimers, pressTimerRef, compTimers, touchStartPosRef, isScrollingRef,
              audioChunksRef, userId, isVideoStopped, camera, userInit, micPending,
              recState, recUser, recEvt, stopThrowsWhenInactive, turns, contact,
              nContacts, sess, nSessions, taps, unhandled, hasUserInteracted,
              frameVars, playerVars, lifeVars, chatVars>>

\* reader.read() resolved with { done: false, value }: a Uint8Array is truthy
\* whatever its length, so the chunk is pushed.
ReadChunk ==
  /\ reader.state = "reading"
  /\ reader.stream # <<>>
  /\ reader' = [reader EXCEPT !.stream = Tail(@), !.chunks = Append(@, Head(reader.stream))]
  /\ UNCHANGED <<audioURL, error, urlTimers, speechBlob>>
  /\ DrainFrame

\* reader.read() resolved with { done: true }: the Blob is made and its URL is
\* installed after the reset, or "No audio data received" is thrown and caught.
ReadDone ==
  /\ reader.state = "reading"
  /\ reader.stream = <<>>
  /\ IF Len(reader.chunks) > 0
     THEN /\ reader' = [reader EXCEPT !.state = "done"]
          /\ speechBlob' = [made |-> TRUE, bytes |-> Concatenate(reader.chunks)]
          /\ audioURL' = NoURL
          /\ urlTimers' = InstallLater(VoiceUrl(1))
          /\ UNCHANGED error
     ELSE /\ reader' = [reader EXCEPT !.state = "failed"]
          /\ error' = "Speech generation failed"
          /\ UNCHANGED <<audioURL, urlTimers, speechBlob>>
  /\ DrainFrame

\* reader.read() rejected: the connection broke before the stream ended.
ReadReject ==
  /\ reader.state = "reading"
  /\ reader' = [reader EXCEPT !.state = "broken"]
  /\ error' = "Speech generation failed"
  /\ UNCHANGED <<audioURL, urlTimers, speechBlob>>
  /\ DrainFrame

NextDrain ==
  \/ ReadChunk
  \/ ReadDone
  \/ ReadReject
  \/ \E t \in urlTimers : UrlTimerFire(t)
  \/ Tick

SpecDrain == InitDrains /\ [][NextDrain]_vars

\* the bytes of a sequence of chunks, one after the other
RECURSIVE Flatten(_)
Flatten(q) == IF q = <<>> THEN <<>> ELSE Head(q) \o Flatten(Tail(q))

\* the stream was read to its end
Drained == reader.state \in {"done", "failed"}

\* C17: a stream of k >= 1 chunks read to its end gives one Blob whose bytes are
\* the chunks in the order they arrived (its size the sum of their sizes) and
\* only its URL is installed; a stream that ends without a chunk gives an error,
\* no Blob and no URL.
C17_DrainConcatenatesInOrder ==
  /\ (Drained /\ reader.source # <<>>) =>
        /\ reader.state = "done"
        /\ speechBlob.made
        /\ speechBlob.bytes = Flatten(reader.source)
        /\ Len(speechBlob.bytes) = SumSeq(Lengths(reader.source))
        /\ audioURL \in {NoURL, VoiceUrl(1)}
        /\ Cardinality(urlTimers) + (IF audioURL = NoURL THEN 0 ELSE 1) = 1
  /\ (Drained /\ reader.source = <<>>) =>
        /\ reader.state = "failed"
        /\ error = "Speech generation failed"
        /\ ~speechBlob.made
        /\ audioURL = NoURL /\ urlTimers = {}

\* chunks of 100, 200 and 50 bytes were read and the 350-byte asset is installed
C17_Witness ==
  /\ Lengths(reader.source) = <<100, 200, 50>>
  /\ reader.state = "done"
  /\ Len(speechBlob.bytes) = 350
  /\ audioURL = VoiceUrl(1)

\* ============================================================== AudioPlayer
\* The component of app/components/ui/AudioPlayer.tsx as its parent renders it:
\* mounted while audioURL is set, given one object URL after the other.
PSnap ==
  [player |-> player, element |-> element, plays |-> plays,
   unmuteTimers |-> unmuteTimers, playLog |-> playLog]

PCommit(s) ==
  /\ player' = s.player
  /\ element' = s.element
  /\ plays' = s.plays
  /\ unmuteTimers' = s.unmuteTimers
  /\ playLog' = s.playLog

\* What the AudioPlayer leaves alone.
PlayerFrame ==
  UNCHANGED <<cameraReady, isRecording, isPressing, mediaRecorder, audioURL, error,
              pressTimerId, holdTimers, pressTimerRef, compTimers, touchStartPosRef,
              isScrollingRef, audioChunksRef, userId, isVideoStopped, camera, userInit,
              micPending, recState, recUser, recEvt, stopThrowsWhenInactive, turns,
              urlTimers, contact, nContacts, sess, nSessions, taps, unhandled,
              frameVars, drainVars, lifeVars, chatVars>>

\* ---------------------------------------------------- HTMLMediaElement
\* Play promises that are pending are rejected when the element is paused or
\* loaded anew.
Aborted(q) == [i \in DOMAIN q |-> [q[i] EXCEPT !.ok = FALSE]]

\* element.pause(); the 'pause' event reaches onPause while listeners are attached
ElementPause(s) ==
  [s EXCEPT !.element.paused = TRUE,
            !.plays = Aborted(@),
            !.player.isPlaying =
               IF s.element.listeners # {} /\ ~s.element.paused THEN FALSE ELSE @]

\* element.src = url; element.load()
ElementLoad(s, url) ==
  [s EXCEPT !.element.src = url, !.element.paused = TRUE, !.element.pos = 0,
            !.plays = Aborted(@)]

\* element.play() of the given kind.  Whether the browser lets it start is not
\* the page's to decide; playback that had ended starts again from the beginning.
ElementPlay(s, kind, allowed) ==
  LET a == s.element.src
      go == allowed /\ a # NoURL
      s1 == [s EXCEPT !.plays = Append(@, [kind |-> kind, asset |-> a, ok |-> go]),
                      !.element.paused = IF go THEN FALSE ELSE @,
                      !.element.pos = IF go /\ @ = EndPos THEN 0 ELSE @]
  IN  IF kind = "auto" THEN [s1 EXCEPT !.playLog.auto = @ + 1]
      ELSE IF kind = "manual" THEN [s1 EXCEPT !.playLog.manual = @ + 1]
      ELSE s1

\* ------------------------------------------------------------ the component
\* clearInterval(autoplayIntervalRef.current); autoplayIntervalRef.current = null
ClearAutoplayInterval(s) ==
  IF s.player.autoplayIntervalRef
  THEN [s EXCEPT !.player.autoplayIntervalRef = FALSE, !.player.intervals = @ - 1]
  ELSE s

\* attemptAutoplay of onCanPlay
attemptAutoplay(s, allowed) ==
  ElementPlay([s EXCEPT !.element.muted = TRUE, !.element.volume = 0], "auto", allowed)

\* The record of the asset whose listeners are being attached: a new one for a
\* new asset, with the source the element still carries and whether the element
\* is paused and free of other listeners.
Attached(s, url) ==
  [(IF s.playLog.asset = url THEN s.playLog ELSE [NoLog EXCEPT !.asset = url])
     EXCEPT !.over = s.element.src,
            !.clean = s.element.paused /\ s.element.listeners \ {url} = {}]

\* The clean-up the set-up effect returned: the six listeners are removed and
\* the element is paused.
Cleanup(s) == ElementPause([s EXCEPT !.element.listeners = {}])

\* The set-up effect for audioURL = url, after the clean-up of its last run.
SetupEffect(s0, url) ==
  LET s1 == ClearAutoplayInterval(
              [s0 EXCEPT !.player.hasAutoPlayedRef = FALSE,
                         !.player.autoplayAttemptsRef = 0])
      s2 == [s1 EXCEPT !.player.isLoading = TRUE,
                       !.player.isPlaying = FALSE,
                       !.element.listeners = @ \cup {url},
                       !.playLog = Attached(s1, url),
                       !.element.muted = TRUE]
  IN  ElementLoad(s2, url)

\* The parent renders the AudioPlayer for a new object URL.
Mount(url) ==
  /\ ~player.mounted
  /\ url = player.made + 1
  /\ url \in Assets
  /\ PCommit(SetupEffect(
       [PSnap EXCEPT !.player = [NoPlayer EXCEPT !.mounted = TRUE, !.audioURL = url,
                                                 !.made = url,
                                                 !.unlockEvents = MaxUnlocks],
                     !.element = [NoElement EXCEPT !.muted = TRUE]], url))
  /\ UNCHANGED hasUserInteracted
  /\ PlayerFrame

\* The parent stops rendering the AudioPlayer: both effects are cleaned up, and
\* the element and the refs are gone with the component.
Unmount ==
  /\ player.mounted
  /\ player' = [NoPlayer EXCEPT !.made = player.made]
  /\ element' = NoElement
  /\ plays' = <<>>
  /\ unmuteTimers' = {}
  /\ playLog' = NoLog
  /\ UNCHANGED hasUserInteracted
  /\ PlayerFrame

\* The audioURL prop changes to a new object URL while the component is mounted.
ChangeAudioURL(url) ==
  /\ player.mounted
  /\ url = player.made + 1
  /\ url \in Assets
  /\ PCommit(SetupEffect(Cleanup([PSnap EXCEPT !.player.audioURL = url,
                                               !.player.made = url]), url))
  /\ UNCHANGED hasUserInteracted
  /\ PlayerFrame

\* The store's hasUserInteracted becomes true (the first press): it is a
\* dependency of the set-up effect, which runs again for the same audioURL.
SetHasUserInteracted ==
  /\ ~hasUserInteracted
  /\ hasUserInteracted' = TRUE
  /\ IF player.mounted
     THEN PCommit(SetupEffect(Cleanup(PSnap), player.audioURL))
     ELSE UNCHANGED playerVars
  /\ PlayerFrame

\* 'canplay' reaches onCanPlay, for the first time after load() or again.
CanPlay(allowed) ==
  /\ player.mounted
  /\ element.src # NoURL
  /\ element.listeners # {}
  /\ LET s0 == [PSnap EXCEPT !.player.isLoading = FALSE] IN
     IF ~player.hasAutoPlayedRef
     THEN /\ playLog.auto < MaxAutoCalls
          /\ Len(plays) < MaxPending
          /\ LET s1 == attemptAutoplay(s0, allowed) IN
             PCommit(IF ~s1.player.autoplayIntervalRef
                     THEN [s1 EXCEPT !.player.autoplayIntervalRef = TRUE,
                                     !.player.intervals = @ + 1]
                     ELSE s1)
     ELSE PCommit(s0)
  /\ UNCHANGED hasUserInteracted
  /\ PlayerFrame

\* The callback of the 1000 ms retry interval.
IntervalTick(allowed) ==
  /\ player.mounted
  /\ player.intervals > 0
  /\ IF ~player.hasAutoPlayedRef /\ player.autoplayAttemptsRef < MaxAutoplayAttempts
     THEN /\ playLog.auto < MaxAutoCalls
          /\ Len(plays) < MaxPending
          /\ PCommit(attemptAutoplay(PSnap, allowed))
     ELSE PCommit(ClearAutoplayInterval(PSnap))
  /\ UNCHANGED hasUserInteracted
  /\ PlayerFrame

Without(q, i) == [j \in 1..(Len(q) - 1) |-> IF j < i THEN q[j] ELSE q[j + 1]]

\* 'playing' reaches onPlaying
Playing(s) ==
  IF s.element.listeners # {} THEN [s EXCEPT !.player.isPlaying = TRUE] ELSE s

\* a playback of asset a has begun
Succeeded(s, a) ==
  Playing(IF a = s.playLog.asset THEN [s EXCEPT !.playLog.ok = TRUE] ELSE s)

\* an automatic attempt on asset a has failed
FailedAttempt(s, a) ==
  IF a = s.playLog.asset THEN [s EXCEPT !.playLog.fails = @ + 1] ELSE s

\* then/catch of the promise of an attemptAutoplay
AutoSettled(s, pr) ==
  IF pr.ok
  THEN ClearAutoplayInterval(
         [Succeeded(s, pr.asset) EXCEPT !.player.hasAutoPlayedRef = TRUE,
                                        !.unmuteTimers = @ \cup {"ramp"}])
  ELSE LET n == s.player.autoplayAttemptsRef + 1
           s1 == [FailedAttempt(s, pr.asset) EXCEPT !.element.volume = 1,
                                                    !.player.autoplayAttemptsRef = n]
       IN  IF n < MaxAutoplayAttempts /\ ~s.player.hasAutoPlayedRef
           THEN IF n = MessageAtAttempt
                THEN [s1 EXCEPT !.player.error = AutoplayBlocked]
                ELSE s1
           ELSE ClearAutoplayInterval(s1)

\* then/catch of the promise of togglePlayback
ManualSettled(s, pr) ==
  IF pr.ok
  THEN [Succeeded(s, pr.asset) EXCEPT !.player.hasAutoPlayedRef = TRUE]
  ELSE [s EXCEPT !.player.error = "Playback error"]

\* then/catch of the promise of unlockAudio
UnlockSettled(s, pr) ==
  IF pr.ok
  THEN [Playing(s) EXCEPT !.unmuteTimers = @ \cup {"unmute"}]
  ELSE s

\* The i-th pending play() promise is settled.
PlaySettle(i) ==
  /\ i \in DOMAIN plays
  /\ LET pr == plays[i]
         s == [PSnap EXCEPT !.plays = Without(@, i)]
     IN  PCommit(CASE pr.kind = "auto" -> AutoSettled(s, pr)
                   [] pr.kind = "manual" -> ManualSettled(s, pr)
                   [] pr.kind = "unlock" -> UnlockSettled(s, pr))
  /\ UNCHANGED hasUserInteracted
  /\ PlayerFrame

\* A timeout set after a play that succeeded: the one of attemptAutoplay unmutes
\* and starts the volume ramp (taken here to its end, volume 1), the one of
\* unlockAudio unmutes.
UnmuteTimerFire(k) ==
  /\ k \in unmuteTimers
  /\ unmuteTimers' = unmuteTimers \ {k}
  /\ element' = [element EXCEPT !.muted = FALSE,
                                !.volume = IF k = "ramp" THEN 1 ELSE @]
  /\ UNCHANGED <<player, plays, playLog, hasUserInteracted>>
  /\ PlayerFrame

\* unlockAudio: one of the document listeners registered once at mount (a user
\* event, or the 'touchend' dispatched 500 ms after the set-up).
UnlockAudio(allowed) ==
  /\ player.mounted
  /\ player.unlockEvents > 0
  /\ LET s == [PSnap EXCEPT !.player.unlockEvents = @ - 1] IN
     IF element.paused
     THEN /\ Len(plays) < MaxPending
          /\ PCommit(ElementPlay([s EXCEPT !.element.muted = TRUE], "unlock", allowed))
     ELSE PCommit(s)
  /\ UNCHANGED hasUserInteracted
  /\ PlayerFrame

\* togglePlayback: a click on the play button, enabled once loading is over.
TogglePlayback(allowed) ==
  /\ player.mounted
  /\ ~player.isLoading
  /\ IF player.isPlaying
     THEN PCommit(ElementPause(PSnap))
     ELSE /\ playLog.manual < MaxManualCalls
          /\ Len(plays) < MaxPending
          /\ PCommit(ElementPlay([PSnap EXCEPT !.player.error = ""], "manual", allowed))
  /\ UNCHANGED hasUserInteracted
  /\ PlayerFrame

\* Playback goes on to the end of the asset.
Advance ==
  /\ player.mounted
  /\ ~element.paused
  /\ element.pos < EndPos
  /\ element' = [element EXCEPT !.pos = @ + 1]
  /\ UNCHANGED <<player, plays, unmuteTimers, playLog, hasUserInteracted>>
  /\ PlayerFrame

\* 'ended' reaches onEnded.
OnEnded ==
  /\ player.mounted
  /\ element.pos = EndPos
  /\ element.listeners # {}
  /\ PCommit(ElementPause([PSnap EXCEPT !.player.isPlaying = FALSE,
                                        !.element.pos = 0]))
  /\ UNCHANGED hasUserInteracted
  /\ PlayerFrame

NextPlayer ==
  \/ \E url \in Assets : Mount(url)
  \/ Unmount
  \/ \E url \in Assets : ChangeAudioURL(url)
  \/ SetHasUserInteracted
  \/ \E allowed \in BOOLEAN : CanPlay(allowed)
  \/ \E allowed \in BOOLEAN : IntervalTick(allowed)
  \/ \E i \in 1..MaxPending : PlaySettle(i)
  \/ \E k \in {"ramp", "unmute"} : UnmuteTimerFire(k)
  \/ \E allowed \in BOOLEAN : UnlockAudio(allowed)
  \/ \E allowed \in BOOLEAN : TogglePlayback(allowed)
  \/ Advance
  \/ OnEnded

SpecPlayer == InitReady /\ [][NextPlayer]_vars

\* ------------------------------------- the AudioPlayer of src/unnamed/part_002
\* The effect on [hasUserInteracted, audioURL, isPlaying]: it marks that it ran
\* and prepares the element, and calls nothing that plays.
PostInteractionEffect2(s, interacted) ==
  IF ~interacted \/ s.player.audioURL = NoURL
     \/ s.player.hasTriedAutoplayAfterInteractionRef
  THEN s
  ELSE IF s.player.isPlaying THEN s
  ELSE [s EXCEPT !.player.hasTriedAutoplayAfterInteractionRef = TRUE,
                 !.element.volume = 0,
                 !.element.pos = 0]

\* The effects that run after a render in which only isPlaying may have changed.
PCommit2(s) ==
  PCommit(IF s.player.isPlaying # player.isPlaying
          THEN PostInteractionEffect2(s, hasUserInteracted)
          ELSE s)

\* attemptAutoplay(element)
attemptAutoplay2(s, allowed) ==
  ElementPlay([s EXCEPT !.player.hasAutoPlayedRef = TRUE,
                        !.element.volume = 0,
                        !.element.pos = 0], "auto", allowed)

\* The clean-up of the set-up effect: listeners removed, pause(), currentTime = 0,
\* src = "".
Cleanup2(s) ==
  [ElementPause([s EXCEPT !.element.listeners = {}])
     EXCEPT !.element.pos = 0, !.element.src = NoURL]

\* The effects for a new audioURL = url: set-up, post-interaction, reset.
Effects2(s0, url, interacted) ==
  LET s1 == [s0 EXCEPT !.player.hasAutoPlayedRef = FALSE,
                       !.player.isLoading = TRUE,
                       !.player.isPlaying = FALSE,
                       !.element.listeners = @ \cup {url},
                       !.playLog = Attached(s0, url),
                       !.element.muted = FALSE]
      s2 == PostInteractionEffect2(ElementLoad(s1, url), interacted)
  IN  [s2 EXCEPT !.player.hasTriedAutoplayAfterInteractionRef = FALSE]

Mount2(url) ==
  /\ ~player.mounted
  /\ url = player.made + 1
  /\ url \in Assets
  /\ PCommit(Effects2(
       [PSnap EXCEPT !.player = [NoPlayer EXCEPT !.mounted = TRUE, !.audioURL = url,
                                                 !.made = url]], url, hasUserInteracted))
  /\ UNCHANGED hasUserInteracted
  /\ PlayerFrame

ChangeAudioURL2(url) ==
  /\ player.mounted
  /\ url = player.made + 1
  /\ url \in Assets
  /\ PCommit(Effects2(Cleanup2([PSnap EXCEPT !.player.audioURL = url,
                                             !.player.made = url]), url,
                      hasUserInteracted))
  /\ UNCHANGED hasUserInteracted
  /\ PlayerFrame

\* hasUserInteracted becomes true: only the post-interaction effect depends on it.
SetHasUserInteracted2 ==
  /\ ~hasUserInteracted
  /\ hasUserInteracted' = TRUE
  /\ IF player.mounted
     THEN PCommit(PostInteractionEffect2(PSnap, TRUE))
     ELSE UNCHANGED playerVars
  /\ PlayerFrame

\* 'canplay' reaches onCanPlay.
CanPlay2(allowed) ==
  /\ player.mounted
  /\ element.src # NoURL
  /\ element.listeners # {}
  /\ LET s0 == [PSnap EXCEPT !.player.isLoading = FALSE] IN
     IF ~player.hasAutoPlayedRef
     THEN /\ playLog.auto < MaxAutoCalls
          /\ Len(plays) < MaxPending
          /\ PCommit2(attemptAutoplay2(s0, allowed))
     ELSE PCommit2(s0)
  /\ UNCHANGED hasUserInteracted
  /\ PlayerFrame

\* then/catch of the promises of attemptAutoplay and togglePlayback
PlaySettle2(i) ==
  /\ i \in DOMAIN plays
  /\ LET pr == plays[i]
         s == [PSnap EXCEPT !.plays = Without(@, i)]
     IN  PCommit2(CASE pr.kind = "auto" ->
                         [(IF pr.ok THEN Succeeded(s, pr.asset)
                           ELSE FailedAttempt(s, pr.asset))
                            EXCEPT !.element.volume = 1]
                    [] pr.kind = "manual" -> ManualSettled(s, pr))
  /\ UNCHANGED hasUserInteracted
  /\ PlayerFrame

\* togglePlayback
TogglePlayback2(allowed) ==
  /\ player.mounted
  /\ ~player.isLoading
  /\ IF player.isPlaying
     THEN PCommit2(ElementPause(PSnap))
     ELSE /\ playLog.manual < MaxManualCalls
          /\ Len(plays) < MaxPending
          /\ PCommit2(ElementPlay(
               [PSnap EXCEPT !.player.error = "",
                             !.element.pos = IF @ = EndPos THEN 0 ELSE @,
                             !.element.volume = 1], "manual", allowed))
  /\ UNCHANGED hasUserInteracted
  /\ PlayerFrame

OnEnded2 ==
  /\ player.mounted
  /\ element.pos = EndPos
  /\ element.listeners # {}
  /\ PCommit2(ElementPause([PSnap EXCEPT !.player.isPlaying = FALSE,
                                         !.element.pos = 0]))
  /\ UNCHANGED hasUserInteracted
  /\ PlayerFrame

NextPlayer2 ==
  \/ \E url \in Assets : Mount2(url)
  \/ Unmount
  \/ \E url \in Assets : ChangeAudioURL2(url)
  \/ SetHasUserInteracted2
  \/ \E allowed \in BOOLEAN : CanPlay2(allowed)
  \/ \E i \in 1..MaxPending : PlaySettle2(i)
  \/ \E allowed \in BOOLEAN : TogglePlayback2(allowed)
  \/ Advance
  \/ OnEnded2

SpecPlayer2 == InitReady /\ [][NextPlayer2]_vars

\* ------------------------------------------------------ claims on playback
\* C11: attemptAutoplay calls play() on an asset five times at most.
C11_AutoplayAttemptsBounded == playLog.auto <= MaxAutoplayAttempts

\* C12: once a playback of the current asset has succeeded, through
\* attemptAutoplay or through togglePlayback, attemptAutoplay makes no further
\* play() call on it.
C12_NoAutoplayAfterSuccess ==
  [][(playLog.ok /\ playLog'.asset = playLog.asset) =>
        playLog'.auto = playLog.auto]_vars

\* C13: from the fifth failed automatic attempt on the current asset on, no
\* retry interval exists, the blocked message is shown and attemptAutoplay makes
\* no further play() call on the asset.
C13_FiveFailuresStopRetries ==
  /\ [](playLog.fails >= MaxAutoplayAttempts =>
          /\ player.intervals = 0 /\ ~player.autoplayIntervalRef
          /\ player.error = AutoplayBlocked)
  /\ [][(playLog.fails >= MaxAutoplayAttempts /\ playLog'.asset = playLog.asset) =>
          playLog'.auto = playLog.auto]_vars

\* C14: when hasUserInteracted becomes true for a current asset that has
\* loaded, whose automatic attempt has been settled and of which no playback has
\* succeeded, one play() call is made on the asset.
C14_OneRetryAfterInteraction ==
  [][(/\ ~hasUserInteracted /\ hasUserInteracted'
      /\ player.mounted /\ ~player.isLoading /\ plays = <<>>
      /\ playLog.auto > 0 /\ ~playLog.ok)
       => Len(plays') = 1]_vars

\* C15: a play() call made by togglePlayback that the browser allows, with every
\* earlier play() settled, plays the element unmuted at volume 1, from position
\* 0 when the asset had reached its end.
C15_ManualPlayFullVolume ==
  [][(/\ playLog'.manual > playLog.manual
      /\ plays = <<>>
      /\ \E i \in 1..Len(plays') : plays'[i].kind = "manual" /\ plays'[i].ok) =>
       /\ ~element'.muted
       /\ element'.volume = 1
       /\ (element.pos = EndPos => element'.pos = 0)]_vars

\* C16: the listeners of an asset are attached to an element that carries no
\* listener of another asset, is paused and has had the source of the asset
\* before cleared; listeners of two assets are never attached together.
C16_SwapReleasesBeforeAttach ==
  /\ Cardinality(element.listeners) <= 1
  /\ playLog.asset # NoURL => (playLog.clean /\ playLog.over \in {NoURL, playLog.asset})

\* togglePlayback is called while the asset is playing: it pauses the element.
PauseStep2 == player.isPlaying /\ \E allowed \in BOOLEAN : TogglePlayback2(allowed)

\* C38: the step in which a playing asset is paused leaves the element's
\* position and volume as they were, so that a later manual play resumes from
\* the paused position.
C38_PauseKeepsPositionAndVolume ==
  [][PauseStep2 => (element'.pos = element.pos /\ element'.volume = element.volume)]_vars

\* C39: the message "Auto-play blocked. Click play to listen." is set only by
\* the failure of the fifth automatic attempt for the current asset, never
\* while attempts remain.
C39_MessageOnlyAfterLastAttempt ==
  [][(player'.error = AutoplayBlocked /\ player.error # AutoplayBlocked)
        => playLog'.fails >= MaxAutoplayAttempts]_vars

\* ------------------------------------------------------------ the text chat
\* ChatInterface.handleSubmit and the generateSpeech call it awaits.

\* A ChatMessage: its id, its sender and its audioUrl.
ChatMessage(id, sender) == [id |-> id, sender |-> sender, audio |-> NoURL]

\* useChatStore.addMessage
addMessage(ms, m) == Append(ms, m)

\* URL.createObjectURL(speechBlob) of the chat's turn t
ChatUrl(t) == Cardinality(ContactIds) + t

\* messages.map((msg) => (msg.id === aiMessage.id ? updatedAiMessage : msg))
updatedMessages(ms, id, url) ==
  [i \in DOMAIN ms |-> IF ms[i].id = id THEN [ms[i] EXCEPT !.audio = url] ELSE ms[i]]

\* generateSpeech is called: the feature test picks the streaming fetch or the
\* buffered axios request, and the first request is issued.
generateSpeech(c, streaming) ==
  [calls |-> c.calls + 1, streaming |-> streaming, phase |-> "first", requests |-> 1,
   firstError |-> "", outcome |-> "none", thrown |-> ""]

\* What the first request can answer: a fetch resolves with any status and
\* perhaps no body, or rejects; axios resolves on success and rejects otherwise.
FirstAnswers(streaming) ==
  IF streaming THEN {"ok", "http error", "no body", "network error"}
  ELSE {"ok", "http error", "network error"}

\* The first request is answered.  Success returns response.body or a Blob; any
\* failure reaches the outer catch, which issues the buffered fallback request.
FirstAnswer(c, ans) ==
  IF ans = "ok"
  THEN [c EXCEPT !.phase = "idle", !.outcome = IF c.streaming THEN "stream" ELSE "blob"]
  ELSE [c EXCEPT !.phase = "fallback", !.requests = @ + 1, !.firstError = ans]

\* The fallback throws the error of the fallback request.
FallbackAnswerThrowsOwnError(c, ok) ==
  IF ok
  THEN [c EXCEPT !.phase = "idle", !.outcome = "blob"]
  ELSE [c EXCEPT !.phase = "idle", !.outcome = "thrown", !.thrown = "fallback error"]

\* The fallback request is answered: a Blob is returned, or the original error
\* is thrown.
FallbackAnswer(c, ok) ==
  IF ok
  THEN [c EXCEPT !.phase = "idle", !.outcome = "blob"]
  ELSE [c EXCEPT !.phase = "idle", !.outcome = "thrown", !.thrown = c.firstError]

ChatFrame ==
  UNCHANGED <<cameraReady, isRecording, isPressing, mediaRecorder, pressTimerId,
              holdTimers, pressTimerRef, compTimers, touchStartPosRef, isScrollingRef,
              audioChunksRef, userId, isVideoStopped, camera, userInit, micPending,
              recState, recUser, recEvt, stopThrowsWhenInactive, turns, contact,
              nContacts, sess, nSessions, taps, unhandled, hasUserInteracted,
              frameVars, playerVars, drainVars, lifeVars>>

\* The form is submitted with a non-blank input: the user's message is added
\* and sendTextPrompt is requested.  The handler keeps the `messages` of the
\* render it was created in.
ChatSubmit ==
  /\ chat.phase = "idle"
  /\ userId # 0
  /\ chat.turns < MaxChatTurns
  /\ messages' = addMessage(messages, ChatMessage(chat.made + 1, "user"))
  /\ chat' = [chat EXCEPT !.phase = "sending", !.seen = messages, !.user = chat.made + 1,
                          !.ai = 0, !.made = @ + 1, !.turns = @ + 1, !.result = "none"]
  /\ UNCHANGED <<speechCall, audioURL, error, urlTimers>>
  /\ ChatFrame

\* sendTextPrompt resolved: the AI message is added and generateSpeech is called.
ChatSendResolve(streaming) ==
  /\ chat.phase = "sending"
  /\ speechCall.calls = 0 \/ streaming = speechCall.streaming
  /\ messages' = addMessage(messages, ChatMessage(chat.made + 1, "ai"))
  /\ chat' = [chat EXCEPT !.phase = "synth", !.ai = chat.made + 1, !.made = @ + 1]
  /\ speechCall' = generateSpeech(speechCall, streaming)
  /\ UNCHANGED <<audioURL, error, urlTimers>>
  /\ ChatFrame

\* sendTextPrompt rejected: the error is set and an error message is added.
ChatSendReject ==
  /\ chat.phase = "sending"
  /\ error' = "Failed to send message"
  /\ messages' = addMessage(messages, ChatMessage(chat.made + 1, "ai"))
  /\ chat' = [chat EXCEPT !.phase = "idle", !.made = @ + 1, !.result = "send failed"]
  /\ UNCHANGED <<speechCall, audioURL, urlTimers>>
  /\ ChatFrame

\* The first request of generateSpeech is answered.
SpeechFirstAnswer(ans) ==
  /\ speechCall.phase = "first"
  /\ ans \in FirstAnswers(speechCall.streaming)
  /\ speechCall' = FirstAnswer(speechCall, ans)
  /\ UNCHANGED <<messages, chat, audioURL, error, urlTimers>>
  /\ ChatFrame

\* The fallback request of generateSpeech is answered.
SpeechFallbackAnswer(ok) ==
  /\ speechCall.phase = "fallback"
  /\ speechCall' = FallbackAnswer(speechCall, ok)
  /\ UNCHANGED <<messages, chat, audioURL, error, urlTimers>>
  /\ ChatFrame

\* generateSpeech has settled and handleSubmit goes on: a Blob, or a stream read
\* to its end with n chunks, becomes the speech URL, the transcript is rebuilt
\* from the handler's `messages` and the URL is installed after 100 ms; a
\* thrown error or an empty stream sets the error.
ChatSpeechDone(n) ==
  /\ chat.phase = "synth"
  /\ speechCall.phase = "idle"
  /\ speechCall.outcome = "stream" \/ n = 0
  /\ IF speechCall.outcome = "blob" \/ (speechCall.outcome = "stream" /\ n > 0)
     THEN /\ messages' = updatedMessages(chat.seen, chat.ai, ChatUrl(chat.turns))
          /\ audioURL' = NoURL
          /\ urlTimers' = InstallLater(ChatUrl(chat.turns))
          /\ chat' = [chat EXCEPT !.phase = "idle", !.result = "ok"]
          /\ UNCHANGED error
     ELSE /\ error' = "Speech generation failed"
          /\ chat' = [chat EXCEPT !.phase = "idle", !.result = "speech failed"]
          /\ UNCHANGED <<messages, audioURL, urlTimers>>
  /\ UNCHANGED speechCall
  /\ ChatFrame

\* The clear button: clearMessages.
ChatClear ==
  /\ messages' = <<>>
  /\ UNCHANGED <<chat, speechCall, audioURL, error, urlTimers>>
  /\ ChatFrame

NextChat ==
  \/ ChatSubmit
  \/ \E streaming \in BOOLEAN : ChatSendResolve(streaming)
  \/ ChatSendReject
  \/ \E ans \in FirstAnswers(TRUE) : SpeechFirstAnswer(ans)
  \/ \E ok \in BOOLEAN : SpeechFallbackAnswer(ok)
  \/ \E n \in 0..1 : ChatSpeechDone(n)
  \/ ChatClear
  \/ \E t \in urlTimers : UrlTimerFire(t)
  \/ Tick

SpecChat == InitReady /\ [][NextChat]_vars

\* The step in which a text turn ends with its response and its speech
\* synthesis both successful.
TurnSucceeds == chat.phase = "synth" /\ chat'.phase = "idle" /\ chat'.result = "ok"

\* The transcript of a turn in progress that was not cleared: the earlier
\* messages, the user's message and the AI reply.
TurnTranscript(url) ==
  chat.seen \o <<ChatMessage(chat.user, "user"),
                 [ChatMessage(chat.ai, "ai") EXCEPT !.audio = url]>>

\* C37: after a text turn whose response and speech synthesis both succeed, the
\* transcript is all earlier messages followed by the user's message and the AI
\* reply carrying its audio URL, in that order.
C37_SuccessfulTurnKeepsMessages ==
  [][(TurnSucceeds /\ messages = TurnTranscript(NoURL))
       => messages' = TurnTranscript(ChatUrl(chat.turns))]_vars

\* C40: generateSpeech issues at most two requests per call; a failed first
\* request is followed by exactly one buffered fallback request whose result is
\* returned as a Blob, and when the fallback fails too the error of the first
\* request is thrown.
C40_AtMostOneFallback ==
  /\ speechCall.requests <= 2
  /\ speechCall.phase = "first" => speechCall.requests = 1
  /\ speechCall.phase = "fallback" =>
       (speechCall.requests = 2 /\ speechCall.firstError # "")
  /\ (speechCall.outcome # "none" /\ speechCall.firstError = "") =>
       (speechCall.requests = 1 /\ speechCall.outcome \in {"stream", "blob"})
  /\ (speechCall.outcome # "none" /\ speechCall.firstError # "") =>
       /\ speechCall.requests = 2
       /\ \/ speechCall.outcome = "blob"
          \/ speechCall.outcome = "thrown" /\ speechCall.thrown = speechCall.firstError

C40_Witness ==
  /\ speechCall.outcome = "thrown"
  /\ speechCall.requests = 2
  /\ speechCall.thrown = speechCall.firstError
  /\ speechCall.firstError # ""
  /\ chat.result = "speech failed"

====
